---- MODULE Spec2Model ----
(***************************************************************************)
(* A model of the OMR feedback decoder (Feedback/utils.py) and of the two  *)
(* upload views that consume it (Feedback/views.py and                     *)
(* Feedback/feedback/views.py).                                            *)
(*                                                                         *)
(* Conventions.                                                            *)
(*  - A Python str is a sequence of one-character strings, so that lower(),*)
(*    strip() and the `in` substring test are computed, not assumed.       *)
(*  - None, "" and [] are all the empty sequence <<>> where the code only  *)
(*    tests them for truthiness.  A field of request.POST is the list of   *)
(*    the values posted under its key, so that an absent field (<<>>) and  *)
(*    an empty one (<< <<>> >>) differ where the code tells them apart.    *)
(*  - A Python dict is a sequence of <<key, value>> pairs in insertion     *)
(*    order; assigning to a key that is present keeps its position.        *)
(*  - A Python float is an IEEE 754 double [neg, m, e], the number         *)
(*    (-1)^neg * m * 2^e, and every operation on floats rounds as the      *)
(*    hardware does.                                                       *)
(*  - The image pipeline of OpenCV (equalizeHist, threshold, findContours, *)
(*    contourArea) is the oracle ContourAreas: the areas of the connected  *)
(*    components found in one region of interest.                          *)
(***************************************************************************)
EXTENDS Integers, Sequences, FiniteSets, TLC

VARIABLES
    entry,              \* which entry point runs: "parse_omr", "upload", "legacy"
    pc,                 \* position of the run
    subjects_arg,       \* parse_omr parameter `subjects`
    phase,              \* parameter / POST field `phase`
    expected_questions, \* parse_omr parameter `expected_questions`
    subjects,           \* parse_omr local `subjects` after resolution
    subject_y_fracs,    \* parse_omr local dict subject -> (f_start, f_end)
    images,             \* parse_omr local `images`
    aggregated,         \* parse_omr local dict subject -> star counts
    per_form,           \* parse_omr local list of per-form records
    results,            \* parse_omr local dict subject -> "Yes"/"No"
    raw_percent,        \* raw_percent of the final loop, per subject
    subject_names,      \* POST list subject_name[]
    teacher_names,      \* POST list teacher_name[]
    total_responsive,   \* local total_responsive of an upload view, after int()
    pdf_lines,          \* text lines PyPDF2 extracts (legacy upload)
    rows,               \* the rows of table Subject
    load_failed,        \* load_images caught an exception (utils.py line 106)
    debug_dir,          \* the directory debug_dir: "writable", "readonly", "denied"
    debug_files,        \* dict page index -> image, the files debug_page{idx}.png
    tmp_path,           \* views.upload local tmp_path is set (FALSE is None)
    tmp_file,           \* the temporary file of views.upload: "none", "exists", "removed"
    post,               \* the request of an upload view: method, posted fields, file
    batches,            \* the rows of table Batch
    teachers,           \* the rows of table Teacher
    performances,       \* the rows of table Performance
    session,            \* request.session["per_form_results"]: <<>> while unset
    feedback_data,      \* feedback/views.upload local feedback_data
    runs,               \* the parse_omr calls of two concurrent uploads
    remarks             \* a save_remarks request and the rows it updates

vars == <<entry, pc, subjects_arg, phase, expected_questions, subjects,
          subject_y_fracs, images, aggregated, per_form, results, raw_percent,
          subject_names, teacher_names, total_responsive, pdf_lines, rows,
          load_failed, debug_dir, debug_files, tmp_path, tmp_file, runs, remarks,
          post, batches, teachers, performances, session, feedback_data>>

\* the request of an upload view and what it writes besides Subject rows
viewState == <<post, batches, teachers, performances, session, feedback_data>>

(***************************************************************************)
(* Bounds of the model.                                                    *)
(***************************************************************************)
MaxSubjects == 2
MaxPages == 2

(***************************************************************************)
(* Strings.                                                                *)
(***************************************************************************)
\* The characters of the model are those of Latin-1 (U+0000..U+00FF), the ones a
\* string of the module can hold.  UpperAlpha holds every character of that range
\* that str.lower() changes, LowerAlpha its image at the same position.
UpperAlpha == <<"A", "B", "C", "D", "E", "F", "G", "H", "I", "J", "K", "L", "M", "N", "O", "P", "Q", "R", "S", "T", "U", "V", "W", "X", "Y", "Z", "À", "Á", "Â", "Ã", "Ä", "Å", "Æ", "Ç", "È", "É", "Ê", "Ë", "Ì", "Í", "Î", "Ï", "Ð", "Ñ", "Ò", "Ó", "Ô", "Õ", "Ö", "Ø", "Ù", "Ú", "Û", "Ü", "Ý", "Þ">>
LowerAlpha == <<"a", "b", "c", "d", "e", "f", "g", "h", "i", "j", "k", "l", "m", "n", "o", "p", "q", "r", "s", "t", "u", "v", "w", "x", "y", "z", "à", "á", "â", "ã", "ä", "å", "æ", "ç", "è", "é", "ê", "ë", "ì", "í", "î", "ï", "ð", "ñ", "ò", "ó", "ô", "õ", "ö", "ø", "ù", "ú", "û", "ü", "ý", "þ">>
\* the characters str.strip() removes: those for which str.isspace() holds
Whitespace == {"\t", "\n", "", "\f", "\r", "", "", "", "", " ", "", " "}

LowerChar(c) ==
    IF \E i \in 1..Len(UpperAlpha) : UpperAlpha[i] = c
    THEN LowerAlpha[CHOOSE i \in 1..Len(UpperAlpha) : UpperAlpha[i] = c]
    ELSE c

\* str.lower()
Lower(s) == [i \in 1..Len(s) |-> LowerChar(s[i])]

\* s without the characters of chars at its two ends
StripSet(s, chars) ==
    LET keep == {i \in 1..Len(s) : s[i] \notin chars}
    IN  IF keep = {} THEN <<>>
        ELSE LET lo == CHOOSE i \in keep : \A j \in keep : i <= j
                 hi == CHOOSE i \in keep : \A j \in keep : j <= i
             IN  SubSeq(s, lo, hi)

\* str.strip()
Strip(s) == StripSet(s, Whitespace)

\* `sub in s` for two str
Contains(sub, s) ==
    \E i \in 0..(Len(s) - Len(sub)) : SubSeq(s, i + 1, i + Len(sub)) = sub

S_Physics == <<"P", "h", "y", "s", "i", "c", "s">>
S_Chemistry == <<"C", "h", "e", "m", "i", "s", "t", "r", "y">>
S_Maths == <<"M", "a", "t", "h", "s">>
S_Biology == <<"B", "i", "o", "l", "o", "g", "y">>
S_Social == <<"S", "o", "c", "i", "a", "l">>
S_English == <<"E", "n", "g", "l", "i", "s", "h">>
S_Language == <<"L", "a", "n", "g", "u", "a", "g", "e">>
S_MAT == <<"M", "A", "T">>
S_ComputerScience == <<"C", "o", "m", "p", "u", "t", "e", "r", " ", "S", "c", "i", "e", "n", "c", "e">>
S_Botany == <<"B", "o", "t", "a", "n", "y">>
S_Zoology == <<"Z", "o", "o", "l", "o", "g", "y">>
L_computer == <<"c", "o", "m", "p", "u", "t", "e", "r">>
L_computer_science == <<"c", "o", "m", "p", "u", "t", "e", "r", " ", "s", "c", "i", "e", "n", "c", "e">>
L_biology == <<"b", "i", "o", "l", "o", "g", "y">>
L_botany == <<"b", "o", "t", "a", "n", "y">>
L_zoology == <<"z", "o", "o", "l", "o", "g", "y">>
L_english == <<"e", "n", "g", "l", "i", "s", "h">>
L_mat == <<"m", "a", "t">>
L_maths == <<"m", "a", "t", "h", "s">>
L_mathematics == <<"m", "a", "t", "h", "e", "m", "a", "t", "i", "c", "s">>
L_social == <<"s", "o", "c", "i", "a", "l">>
L_language == <<"l", "a", "n", "g", "u", "a", "g", "e">>
L_9 == <<"9">>
L_9th == <<"9", "t", "h">>
L_class_9 == <<"c", "l", "a", "s", "s", " ", "9">>
L_10 == <<"1", "0">>
L_10th == <<"1", "0", "t", "h">>
L_class_10 == <<"c", "l", "a", "s", "s", " ", "1", "0">>
L_11 == <<"1", "1">>
L_11th == <<"1", "1", "t", "h">>
L_class_11 == <<"c", "l", "a", "s", "s", " ", "1", "1">>
L_12 == <<"1", "2">>
L_12th == <<"1", "2", "t", "h">>
L_class_12 == <<"c", "l", "a", "s", "s", " ", "1", "2">>
L_jee == <<"j", "e", "e">>
L_med == <<"m", "e", "d">>
K_9 == <<"9">>
K_10 == <<"1", "0">>
K_11_jee == <<"1", "1", "-", "j", "e", "e">>
K_12_jee == <<"1", "2", "-", "j", "e", "e">>
K_11_medical == <<"1", "1", "-", "m", "e", "d", "i", "c", "a", "l">>
K_12_medical == <<"1", "2", "-", "m", "e", "d", "i", "c", "a", "l">>

(***************************************************************************)
(* Python dicts (insertion ordered).                                       *)
(***************************************************************************)
DictHas(d, k) == \E i \in 1..Len(d) : d[i][1] = k
DictIndex(d, k) == CHOOSE i \in 1..Len(d) : d[i][1] = k
DictGet(d, k) == d[DictIndex(d, k)][2]
DictPut(d, k, v) ==
    IF DictHas(d, k)
    THEN [d EXCEPT ![DictIndex(d, k)] = <<k, v>>]
    ELSE Append(d, <<k, v>>)
DictKeys(d) == [i \in 1..Len(d) |-> d[i][1]]

(***************************************************************************)
(* Exact rationals <<n, d>>, d > 0, kept in lowest terms: the arithmetic   *)
(* in which the properties are stated.                                     *)
(***************************************************************************)
RECURSIVE GCD(_, _)
GCD(a, b) == IF b = 0 THEN a ELSE GCD(b, a % b)
Abs(n) == IF n < 0 THEN 0 - n ELSE n
RNorm(a) ==
    LET g == GCD(Abs(a[1]), a[2])
    IN  <<a[1] \div g, a[2] \div g>>
RMul(a, b) ==
    LET x == RNorm(<<a[1], b[2]>>)
        y == RNorm(<<b[1], a[2]>>)
    IN  RNorm(<<x[1] * y[1], x[2] * y[2]>>)
RLe(a, b)  == a[1] * b[2] <= b[1] * a[2]
RMin(a, b) == IF RLe(a, b) THEN a ELSE b
RInt(n)    == <<n, 1>>

Max(a, b) == IF a >= b THEN a ELSE b
Min(a, b) == IF a <= b THEN a ELSE b

(***************************************************************************)
(* Natural numbers of any size, for the 53-bit significands of Python      *)
(* floats: a sequence of limbs in base 2^15, least significant first, with *)
(* no zero limb at the top; <<>> is 0.                                     *)
(***************************************************************************)
LimbBits == 15
LimbBase == 2 ^ LimbBits
SignificandBits == 53

Limb(a, i) == IF i <= Len(a) THEN a[i] ELSE 0

RECURSIVE BTrim(_)
BTrim(a) == IF a # <<>> /\ a[Len(a)] = 0 THEN BTrim(SubSeq(a, 1, Len(a) - 1)) ELSE a

RECURSIVE BFromInt(_)
BFromInt(n) == IF n = 0 THEN <<>> ELSE <<n % LimbBase>> \o BFromInt(n \div LimbBase)

RECURSIVE BToInt(_)
BToInt(a) == IF a = <<>> THEN 0 ELSE a[1] + LimbBase * BToInt(Tail(a))

RECURSIVE BAddFrom(_, _, _, _)
BAddFrom(a, b, i, carry) ==
    IF i > Len(a) /\ i > Len(b) THEN (IF carry = 0 THEN <<>> ELSE <<carry>>)
    ELSE <<(Limb(a, i) + Limb(b, i) + carry) % LimbBase>>
             \o BAddFrom(a, b, i + 1, (Limb(a, i) + Limb(b, i) + carry) \div LimbBase)
BAdd(a, b) == BAddFrom(a, b, 1, 0)

\* a - b for a >= b
RECURSIVE BSubFrom(_, _, _, _)
BSubFrom(a, b, i, borrow) ==
    IF i > Len(a) THEN <<>>
    ELSE <<(a[i] - Limb(b, i) - borrow + LimbBase) % LimbBase>>
             \o BSubFrom(a, b, i + 1, IF a[i] - Limb(b, i) - borrow < 0 THEN 1 ELSE 0)
BSub(a, b) == BTrim(BSubFrom(a, b, 1, 0))

\* -1, 0, 1 as a < b, a = b, a > b
RECURSIVE BCmpFrom(_, _, _)
BCmpFrom(a, b, i) ==
    IF i = 0 THEN 0
    ELSE IF a[i] < b[i] THEN -1
    ELSE IF a[i] > b[i] THEN 1
    ELSE BCmpFrom(a, b, i - 1)
BCmp(a, b) ==
    IF Len(a) < Len(b) THEN -1
    ELSE IF Len(a) > Len(b) THEN 1
    ELSE BCmpFrom(a, b, Len(a))

\* a * k for one limb k
RECURSIVE BMulLimbFrom(_, _, _, _)
BMulLimbFrom(a, k, i, carry) ==
    IF i > Len(a) THEN (IF carry = 0 THEN <<>> ELSE <<carry>>)
    ELSE <<(a[i] * k + carry) % LimbBase>>
             \o BMulLimbFrom(a, k, i + 1, (a[i] * k + carry) \div LimbBase)
BMulLimb(a, k) == IF k = 0 THEN <<>> ELSE BMulLimbFrom(a, k, 1, 0)

\* a * LimbBase^n
BShlLimbs(a, n) == IF a = <<>> THEN <<>> ELSE [i \in 1..n |-> 0] \o a

RECURSIVE BMulFrom(_, _, _)
BMulFrom(a, b, j) ==
    IF j > Len(b) THEN <<>>
    ELSE BAdd(BShlLimbs(BMulLimb(a, b[j]), j - 1), BMulFrom(a, b, j + 1))
BMul(a, b) == BMulFrom(a, b, 1)

\* a div k for one limb k > 0, from limb i down with remainder r
RECURSIVE BDivLimbFrom(_, _, _, _)
BDivLimbFrom(a, k, i, r) ==
    IF i = 0 THEN <<>>
    ELSE BDivLimbFrom(a, k, i - 1, (r * LimbBase + a[i]) % k) \o <<(r * LimbBase + a[i]) \div k>>
BDivLimb(a, k) == BTrim(BDivLimbFrom(a, k, Len(a), 0))

\* a * 2^n and a div 2^n
BShl(a, n) == BShlLimbs(BMulLimb(a, 2 ^ (n % LimbBits)), n \div LimbBits)
BShr(a, n) ==
    IF n \div LimbBits >= Len(a) THEN <<>>
    ELSE BDivLimb(SubSeq(a, n \div LimbBits + 1, Len(a)), 2 ^ (n % LimbBits))

\* the number of bits of a limb and of a natural
RECURSIVE LimbLen(_)
LimbLen(k) == IF k = 0 THEN 0 ELSE 1 + LimbLen(k \div 2)
BBits(a) == IF a = <<>> THEN 0 ELSE LimbBits * (Len(a) - 1) + LimbLen(a[Len(a)])

\* bit i of a, bit 0 the lowest
Bit(a, i) == (Limb(a, i \div LimbBits + 1) \div (2 ^ (i % LimbBits))) % 2
BOdd(a) == Limb(a, 1) % 2 = 1

\* the number of zero bits at the low end of a # 0
RECURSIVE TrailingZeros(_, _)
TrailingZeros(a, i) == IF Bit(a, i) = 1 THEN i ELSE TrailingZeros(a, i + 1)

\* Long division bit by bit.  A state of the division is <<i, q, r>>: the bits of a
\* above bit i are consumed, q is their quotient by b and r their remainder.
BDivModBit(b, i, q, r2) ==
    IF BCmp(r2, b) >= 0 THEN <<i - 1, BAdd(BAdd(q, q), <<1>>), BSub(r2, b)>>
    ELSE <<i - 1, BAdd(q, q), r2>>
RECURSIVE BDivModFrom(_, _, _)
BDivModFrom(a, b, st) ==
    IF st[1] < 0 THEN <<st[2], st[3]>>
    ELSE BDivModFrom(a, b, BDivModBit(b, st[1], st[2],
             BAdd(BAdd(st[3], st[3]), IF Bit(a, st[1]) = 1 THEN <<1>> ELSE <<>>)))
\* the quotient q of a by one limb k, with the remainder
BDivModLimb(a, k, q) == <<q, BSub(a, BMulLimb(q, k))>>
\* <<a div b, a mod b>> for b # 0
BDivMod(a, b) ==
    IF Len(b) = 1 THEN BDivModLimb(a, b[1], BDivLimb(a, b[1]))
    ELSE BDivModFrom(a, b, <<BBits(a) - 1, <<>>, <<>>>>)

(***************************************************************************)
(* Python floats (IEEE 754 binary64, round to nearest, ties to even).  A   *)
(* float is [neg, m, e] and stands for (-1)^neg * m * 2^e, with m an odd   *)
(* natural of at most 53 bits; zero is [FALSE, <<>>, 0].  Every operation  *)
(* computes the exact result and rounds it once, as the hardware does.     *)
(* Exponents stay far from the limits of the format in every computation   *)
(* of the program, so overflow and subnormal numbers are left out; -0.0 is *)
(* 0.0, the two compare equal in Python.                                   *)
(***************************************************************************)
FZero == [neg |-> FALSE, m |-> <<>>, e |-> 0]

\* m * 2^(e - tz) for m a multiple of 2^tz
FShifted(neg, m, e, tz) == [neg |-> neg, m |-> BShr(m, tz), e |-> e + tz]

\* m * 2^e with m any natural that needs no rounding, in canonical form
FCanon(neg, m, e) == IF m = <<>> THEN FZero ELSE FShifted(neg, m, e, TrailingZeros(m, 0))

\* q = m div 2^shift, one more when the bits of m below bit `shift` are above the
\* half, or are the half and q is odd or the exact value lies above m (sticky)
RoundedQuotient(m, shift, q, sticky) ==
    IF Bit(m, shift - 1) = 1 /\ (sticky \/ BOdd(q) \/ BSub(m, BShl(q, shift)) # BShl(<<1>>, shift - 1))
    THEN BAdd(q, <<1>>)
    ELSE q

\* m div 2^shift rounded to nearest, ties to even
BRoundShr(m, shift, sticky) ==
    IF shift <= 0 THEN m ELSE RoundedQuotient(m, shift, BShr(m, shift), sticky)

\* m * 2^e rounded to 53 bits; sticky: the exact value lies strictly above m * 2^e
\* and strictly below (m + 1) * 2^e
FRound(neg, m, e, sticky) ==
    FCanon(neg, BRoundShr(m, BBits(m) - SignificandBits, sticky),
           e + Max(0, BBits(m) - SignificandBits))

\* float(n) for an int n
FInt(n) == FCanon(n < 0, BFromInt(Abs(n)), 0)

\* a * 2^e with sign xneg plus b * 2^e with sign yneg
FAddAligned(xneg, a, yneg, b, e) ==
    FRound(IF xneg = yneg \/ BCmp(a, b) >= 0 THEN xneg ELSE yneg,
           IF xneg = yneg THEN BAdd(a, b)
           ELSE IF BCmp(a, b) >= 0 THEN BSub(a, b)
           ELSE BSub(b, a),
           e, FALSE)

\* x + y, x - y
FAdd(x, y) ==
    IF x.m = <<>> THEN y
    ELSE IF y.m = <<>> THEN x
    ELSE FAddAligned(x.neg, BShl(x.m, x.e - Min(x.e, y.e)),
                     y.neg, BShl(y.m, y.e - Min(x.e, y.e)), Min(x.e, y.e))
FNeg(x) == IF x.m = <<>> THEN x ELSE [x EXCEPT !.neg = ~@]
FSub(x, y) == FAdd(x, FNeg(y))

\* x * y
FMul(x, y) == FRound(x.neg # y.neg, BMul(x.m, y.m), x.e + y.e, FALSE)

\* the quotient and remainder qr of the significands, rounded; the remainder is
\* the sticky bit
FDivRounded(neg, qr, e) == FRound(neg, qr[1], e, qr[2] # <<>>)
\* x / y with the significand of x shifted k bits up
FDivShifted(x, y, k) == FDivRounded(x.neg # y.neg, BDivMod(BShl(x.m, k), y.m), x.e - y.e - k)
\* x / y for y # 0: the quotient of the significands to at least 55 bits
FDiv(x, y) ==
    IF x.m = <<>> THEN FZero ELSE FDivShifted(x, y, SignificandBits + 2 + BBits(y.m))

\* -1, 0, 1 as |x| < |y|, |x| = |y|, |x| > |y|
FCmpAbs(x, y) == BCmp(BShl(x.m, x.e - Min(x.e, y.e)), BShl(y.m, y.e - Min(x.e, y.e)))
\* -1, 0, 1 as x < y, x = y, x > y
FCmp(x, y) ==
    IF x.neg # y.neg THEN (IF x.neg THEN -1 ELSE 1)
    ELSE IF x.neg THEN FCmpAbs(y, x)
    ELSE FCmpAbs(x, y)
FLe(x, y) == FCmp(x, y) <= 0
FLt(x, y) == FCmp(x, y) < 0
\* min(x, y): the first argument unless the second is smaller
FMin(x, y) == IF FLt(y, x) THEN y ELSE x

\* the int of magnitude n and sign neg
Signed(neg, n) == IF neg THEN 0 - n ELSE n

\* int(x): truncation towards zero
FTrunc(x) ==
    Signed(x.neg, BToInt(IF x.e >= 0 THEN BShl(x.m, x.e) ELSE BShr(x.m, 0 - x.e)))

\* round(100 * x) for the exact value of x, ties to even: the number of hundredths
\* f"{x:.2f}" prints and round(x, 2) keeps
FHundredths(x) ==
    Signed(x.neg, BToInt(IF x.e >= 0 THEN BShl(BMulLimb(x.m, 100), x.e)
                         ELSE BRoundShr(BMulLimb(x.m, 100), 0 - x.e, FALSE)))

(***************************************************************************)
(* Subject resolution: parse_omr, lines 141-169.                           *)
(***************************************************************************)
CLASS_SUBJECTS ==
    << <<K_9,  <<S_Physics, S_Chemistry, S_Maths, S_Biology, S_Social, S_English, S_Language, S_MAT>> >>,
       <<K_10, <<S_Physics, S_Chemistry, S_Maths, S_Biology, S_Social, S_English, S_Language, S_MAT>> >>,
       <<K_11_jee, <<S_Physics, S_Chemistry, S_Maths, S_ComputerScience, S_English>> >>,
       <<K_12_jee, <<S_Physics, S_Chemistry, S_Maths, S_ComputerScience, S_English>> >>,
       <<K_11_medical, <<S_Physics, S_Chemistry, S_Botany, S_Zoology, S_Maths, S_English>> >>,
       <<K_12_medical, <<S_Physics, S_Chemistry, S_Botany, S_Zoology, S_Maths, S_English>> >> >>

DefaultSubjects == <<S_Physics, S_Chemistry, S_Maths, S_English>>

\* class_key of lines 145-161 for the normalised phase p; <<>> is None
ClassKey(p) ==
    IF Contains(L_9, p) \/ Contains(L_9th, p) \/ Contains(L_class_9, p) THEN K_9
    ELSE IF Contains(L_10, p) \/ Contains(L_10th, p) \/ Contains(L_class_10, p) THEN K_10
    ELSE IF Contains(L_11, p) \/ Contains(L_11th, p) \/ Contains(L_class_11, p)
         THEN (IF Contains(L_jee, p) THEN K_11_jee
               ELSE IF Contains(L_med, p) THEN K_11_medical
               ELSE <<>>)
    ELSE IF Contains(L_12, p) \/ Contains(L_12th, p) \/ Contains(L_class_12, p)
         THEN (IF Contains(L_jee, p) THEN K_12_jee
               ELSE IF Contains(L_med, p) THEN K_12_medical
               ELSE <<>>)
    ELSE <<>>

\* ResolveSubjects without the fallback of line 169: nothing is resolved when both
\* the list and the phase are empty
ResolveSubjectsNoFallback(subs, ph) ==
    IF subs = <<>> /\ ph # <<>>
    THEN LET p == Strip(Lower(ph))
             class_key == ClassKey(p)
         IN  IF DictHas(CLASS_SUBJECTS, class_key)
             THEN DictGet(CLASS_SUBJECTS, class_key)
             ELSE DefaultSubjects
    ELSE subs

\* ResolveSubjects without the lower() of line 144
ResolveSubjectsCaseSensitive(subs, ph) ==
    IF subs = <<>> /\ ph # <<>>
    THEN LET p == Strip(ph)
             class_key == ClassKey(p)
         IN  IF DictHas(CLASS_SUBJECTS, class_key)
             THEN DictGet(CLASS_SUBJECTS, class_key)
             ELSE DefaultSubjects
    ELSE IF subs = <<>>
         THEN DefaultSubjects
         ELSE subs

\* The value of `subjects` after lines 141-169.
ResolveSubjects(subs, ph) ==
    IF subs = <<>> /\ ph # <<>>
    THEN LET p == Strip(Lower(ph))
             class_key == ClassKey(p)
         IN  IF DictHas(CLASS_SUBJECTS, class_key)
             THEN DictGet(CLASS_SUBJECTS, class_key)
             ELSE DefaultSubjects
    ELSE IF subs = <<>>
         THEN DefaultSubjects
         ELSE subs

(***************************************************************************)
(* Layout: parse_omr, lines 171-184.                                       *)
(***************************************************************************)
\* The float literals 0.12, 0.96 (line 172), 0.85 (line 179) and 0.28, 0.45, 0.62
\* (line 183).  A literal is the double nearest to the decimal written, which is
\* the correctly rounded quotient of the two integers.
y_top == FDiv(FInt(12), FInt(100))
y_bottom == FDiv(FInt(96), FInt(100))
BandShare == FDiv(FInt(85), FInt(100))
default_x == <<FDiv(FInt(28), FInt(100)), FDiv(FInt(45), FInt(100)), FDiv(FInt(62), FInt(100))>>

\* span of line 173
Span(subs) == FDiv(FSub(y_bottom, y_top), FInt(Max(1, Len(subs))))

\* the band computed for list position i (0-based), lines 178-180
BandAt(subs, i) ==
    LET span == Span(subs)
        f_start == FAdd(y_top, FMul(FInt(i), span))
        f_end == FAdd(f_start, FMul(span, BandShare))
    IN  <<f_start, FMin(f_end, y_bottom)>>

RECURSIVE LayoutFrom(_, _, _)
LayoutFrom(subs, i, d) ==
    IF i >= Len(subs) THEN d
    ELSE LayoutFrom(subs, i + 1, DictPut(d, subs[i + 1], BandAt(subs, i)))

\* subject_y_fracs after the loop of lines 176-180
Layout(subs) == LayoutFrom(subs, 0, <<>>)

\* int(h * f) of lines 207-209 and 239: the int h becomes a float, the product is
\* rounded, int() truncates it
IntMul(h, f) == FTrunc(FMul(FInt(h), f))

\* x_positions of line 209 for a page of width w
XPositions(w) == <<IntMul(w, default_x[1]), IntMul(w, default_x[2]), IntMul(w, default_x[3])>>

stars == <<"5_star", "3_star", "1_star">>
ZeroCounts == [s \in {"5_star", "3_star", "1_star"} |-> 0]
StarValue(s) == CASE s = "5_star" -> 5 [] s = "3_star" -> 3 [] s = "1_star" -> 1

(***************************************************************************)
(* Pages.  A page is [h, w, ink]: its pixel height and width and the name  *)
(* of the marking it carries.  ContourAreas is what cv2.findContours and   *)
(* cv2.contourArea yield in the region of interest of slot idx (0-based),  *)
(* rating column j (0-based), in the band of the p-th subject (1-based, in *)
(* dict order) when the band is cut into eq slots.                         *)
(***************************************************************************)
ContourAreas(ink, p, idx, j, eq) ==
    CASE ink = "all5" -> IF j = 0 THEN <<40>> ELSE <<>>
      [] ink = "example" ->
            \* 12 of 20 slots in column 0, 5 of 20 in column 1, 3 of 20 in column 2
            IF 20 * idx < 12 * eq THEN (IF j = 0 THEN <<40>> ELSE <<>>)
            ELSE IF 20 * idx < 17 * eq THEN (IF j = 1 THEN <<40>> ELSE <<>>)
            ELSE (IF j = 2 THEN <<40>> ELSE <<>>)
      [] ink = "eighty" ->
            \* four slots of every five marked in column 0
            IF 5 * idx < 4 * eq /\ j = 0 THEN <<40>> ELSE <<>>
      [] ink = "smudge" ->
            \* faint marks, several components per region, equal areas across
            \* columns, blank slots
            IF idx % 4 = 0 THEN (IF j = 1 THEN <<21>> ELSE <<>>)
            ELSE IF idx % 4 = 1 THEN (IF j = 0 THEN <<30>> ELSE IF j = 1 THEN <<19, 30>> ELSE <<30, 7>>)
            ELSE IF idx % 4 = 2 THEN (IF j = 0 THEN <<26, 30>> ELSE IF j = 1 THEN <<>> ELSE <<50>>)
            ELSE (IF p % 2 = 1 /\ j = 2 THEN <<24>> ELSE <<>>)

PageLibrary ==
    { [h |-> 3508, w |-> 2480, ink |-> "example"],
      [h |-> 3508, w |-> 2480, ink |-> "eighty"],
      [h |-> 3508, w |-> 2480, ink |-> "smudge"],
      [h |-> 896,  w |-> 633,  ink |-> "all5"],
      [h |-> 12,   w |-> 9,    ink |-> "all5"] }

(***************************************************************************)
(* process_subject_block: utils.py lines 7-89.                             *)
(***************************************************************************)
MinAreaDefault == 25

\* local_min_area of lines 64-75
LocalMinArea(subject, min_area) ==
    LET subject_lower == Strip(Lower(subject))
    IN  IF Contains(L_computer, subject_lower) \/ Contains(L_computer_science, subject_lower)
        THEN 18
        ELSE IF subject_lower = L_english THEN 20
        ELSE IF subject_lower \in {L_mat, L_maths, L_mathematics} THEN 22
        ELSE IF Contains(L_biology, subject_lower) \/ Contains(L_botany, subject_lower)
                \/ Contains(L_zoology, subject_lower)
        THEN 20
        ELSE IF subject_lower \in {L_social, L_language} THEN 18
        ELSE min_area

\* the length of a[start:stop] on an axis of n entries: a negative index counts
\* from the end, and both ends are clipped to the axis
SliceLen(n, start, stop) ==
    LET lo == IF start < 0 THEN Max(0, n + start) ELSE Min(start, n)
        hi == IF stop < 0 THEN Max(0, n + stop) ELSE Min(stop, n)
    IN  Max(0, hi - lo)

\* number of columns of th[..., x - window : x + window] on a band w wide
RoiWidth(w, x, window) == SliceLen(w, x - window, x + window)

\* TakeContour with `a >= max_area`: of equal areas the last one met wins
TakeContourLastWins(acc, j, a, local_min_area) ==
    IF FLt(FInt(local_min_area), a) /\ FLe(acc[2], a) THEN <<j, a>> ELSE acc

\* lines 77-79: one contour of area a (a float) in column j against
\* <<detected_star, max_area>>; detected_star -1 is None
TakeContour(acc, j, a, local_min_area) ==
    IF FLt(FInt(local_min_area), a) /\ FLt(acc[2], a) THEN <<j, a>> ELSE acc

\* lines 60-79 over the contours of one region; line 61 scales each area
RECURSIVE ScanContours(_, _, _, _, _, _)
ScanContours(areas, k, j, local_min_area, area_boost, acc) ==
    IF k > Len(areas) THEN acc
    ELSE ScanContours(areas, k + 1, j, local_min_area, area_boost,
                      TakeContour(acc, j, FMul(FInt(areas[k]), area_boost), local_min_area))

\* the loop of lines 53-79 from column j on; local_min_area does not change
\* within a band, so it is computed once per band
RECURSIVE ScanColumns(_, _, _, _, _, _, _, _, _, _)
ScanColumns(page, p, local_min_area, area_boost, idx, eq, x_positions, window, j, acc) ==
    IF j >= Len(x_positions) THEN acc
    ELSE ScanColumns(page, p, local_min_area, area_boost, idx, eq, x_positions, window, j + 1,
            IF RoiWidth(page.w, x_positions[j + 1], window) = 0
            THEN acc
            ELSE ScanContours(ContourAreas(page.ink, p, idx, j, eq), 1, j,
                              local_min_area, area_boost, acc))

\* line 49: the slot is examined
SlotExamined(y_q, window, block_h) == ~(y_q - window < 0 \/ y_q + window >= block_h)

\* detected_star of lines 52-79 for slot idx, -1 for None
DetectedStar(page, p, local_min_area, area_boost, idx, eq, x_positions, window) ==
    ScanColumns(page, p, local_min_area, area_boost, idx, eq, x_positions, window, 0,
                <<-1, FZero>>)[1]

\* BumpCount with the increment applied to every rating of the slot
BumpCountEveryRating(res, star) == [s \in DOMAIN res |-> res[s] + 1]

\* line 82
BumpCount(res, star) == [res EXCEPT ![star] = @ + 1]

\* lines 47-82 for slot idx: the counts after it
SlotStep(page, p, local_min_area, area_boost, eq, x_positions, block_h, step, window, idx, res) ==
    LET y_q == ((2 * idx + 1) * step) \div 2
    IN  IF ~SlotExamined(y_q, window, block_h) THEN res
        ELSE LET d == DetectedStar(page, p, local_min_area, area_boost, idx, eq,
                                   x_positions, window)
             IN  IF d = -1 THEN res ELSE BumpCount(res, stars[d + 1])

RECURSIVE SlotLoop(_, _, _, _, _, _, _, _, _, _, _)
SlotLoop(page, p, local_min_area, area_boost, eq, x_positions, block_h, step, window, idx, res) ==
    IF idx >= eq THEN res
    ELSE SlotLoop(page, p, local_min_area, area_boost, eq, x_positions, block_h, step, window,
            idx + 1,
            SlotStep(page, p, local_min_area, area_boost, eq, x_positions, block_h, step,
                     window, idx, res))

\* the counts process_subject_block returns.  The band is gray[y_start:y_end, :]
\* (line 15): y_start is clamped at 0 and y_end at the page height only, so a
\* negative y_end counts from the bottom of the page.  area_boost is a float.
process_subject_block(page, p, subject, y_start0, y_end0, x_positions, eq, area_boost, min_area) ==
    LET y_start == Max(0, y_start0)
        y_end == Min(page.h, y_end0)
        block_h == SliceLen(page.h, y_start, y_end)
    IN  IF block_h = 0 \/ page.w = 0 THEN ZeroCounts
        ELSE LET step == IF eq > 0 THEN block_h \div eq ELSE 1
                 window == Max(15, step \div 2)
                 local_min_area == LocalMinArea(subject, min_area)
             IN  SlotLoop(page, p, local_min_area, area_boost, eq, x_positions, block_h, step,
                          window, 0, ZeroCounts)

\* subject_boosts.get(subject, 1.0) of lines 187 and 214: every boost is 1.0
SubjectBoost(subject) == FInt(1)

(***************************************************************************)
(* parse_omr: the page loop (lines 198-243) and the verdicts (245-255).    *)
(***************************************************************************)
Cutoff == 80
MaxStarValue == 5
DefaultExpectedQuestions == 20
\* the values of expected_questions the model calls parse_omr with
ExpectedQuestionsValues == {0, 5, 20}

\* aggregated of line 198
ZeroAggregate(fracs) == [i \in 1..Len(fracs) |-> <<fracs[i][1], ZeroCounts>>]

\* FormCounts over the upper of two equal-height slices of the page
FormCountsUpperSlice(page, fracs, eq) ==
    [i \in 1..Len(fracs) |->
        LET y_start == IntMul(page.h \div 2, fracs[i][2][1])
            y_end == IntMul(page.h \div 2, fracs[i][2][2])
            x_positions == XPositions(page.w)
        IN  <<fracs[i][1],
              process_subject_block(page, i, fracs[i][1], y_start, y_end, x_positions, eq,
                                    SubjectBoost(fracs[i][1]), MinAreaDefault)>>]

\* form_counts of one page: lines 204-216, one decoder call per dict entry
FormCounts(page, fracs, eq) ==
    [i \in 1..Len(fracs) |->
        LET y_start == IntMul(page.h, fracs[i][2][1])
            y_end == IntMul(page.h, fracs[i][2][2])
            x_positions == XPositions(page.w)
        IN  <<fracs[i][1],
              process_subject_block(page, i, fracs[i][1], y_start, y_end, x_positions, eq,
                                    SubjectBoost(fracs[i][1]), MinAreaDefault)>>]

\* AddCounts folding a page in twice
AddCountsTwice(total, counts) ==
    [s \in {"5_star", "3_star", "1_star"} |-> total[s] + counts[s] + counts[s]]

\* AddCounts with `=` for `+=`
AddCountsOverwrite(total, counts) ==
    [s \in {"5_star", "3_star", "1_star"} |-> counts[s]]

\* lines 217-218 for one subject
AddCounts(total, counts) ==
    [s \in {"5_star", "3_star", "1_star"} |-> total[s] + counts[s]]

\* aggregated after one page has been folded in
FoldForm(aggr, form_counts) ==
    [i \in 1..Len(aggr) |->
        <<aggr[i][1], AddCounts(aggr[i][2], DictGet(form_counts, aggr[i][1]))>>]

\* FormRecord with enumerate() counting from 0
FormRecordFromZero(idx, form_counts) == [page_number |-> idx - 1, star_counts |-> form_counts]

\* line 229
FormRecord(idx, form_counts) == [page_number |-> idx, star_counts |-> form_counts]

\* total_score of line 249
TotalScore(star_counts) ==
    star_counts["5_star"] * StarValue("5_star")
    + star_counts["3_star"] * StarValue("3_star")
    + star_counts["1_star"] * StarValue("1_star")

\* MaxScore without the number of responses
MaxScoreOneResponse(total_responses, eq) == eq * MaxStarValue

\* max_score of line 250
MaxScore(total_responses, eq) == total_responses * eq * MaxStarValue

\* (total_score / max_score) * 100 if max_score > 0 else 0, lines 236 and 251
PercentOfScore(total_score, max_score) ==
    IF max_score > 0
    THEN FMul(FDiv(FInt(total_score), FInt(max_score)), FInt(100))
    ELSE FInt(0)

\* PercentOfScore for every score and maximum the model reaches, computed once
ScoreKeys ==
    (0..(2 * MaxPages * 20 * MaxStarValue))
        \X {r * eq * MaxStarValue :
               r \in 0..MaxPages, eq \in ExpectedQuestionsValues \cup {DefaultExpectedQuestions}}
PercentTable == [k \in ScoreKeys |-> PercentOfScore(k[1], k[2])] @@ <<>>

\* raw_percent of line 251
RawPercent(star_counts, total_responses, eq) ==
    LET key == <<TotalScore(star_counts), MaxScore(total_responses, eq)>>
    IN  IF key \in ScoreKeys THEN PercentTable[key] ELSE PercentOfScore(key[1], key[2])

\* Verdict with a strict comparison
VerdictStrict(star_counts, total_responses, eq) ==
    IF FLt(FInt(Cutoff), RawPercent(star_counts, total_responses, eq)) THEN "Yes" ELSE "No"

\* Verdict by the number of marked responses: at least 16 of every 20
VerdictByResponseCount(star_counts, total_responses, eq) ==
    IF total_responses * eq > 0
       /\ 20 * (star_counts["5_star"] + star_counts["3_star"] + star_counts["1_star"])
             >= 16 * total_responses * eq
    THEN "Yes" ELSE "No"

\* line 253
Verdict(star_counts, total_responses, eq) ==
    IF FLe(FInt(Cutoff), RawPercent(star_counts, total_responses, eq)) THEN "Yes" ELSE "No"

(***************************************************************************)
(* Rounding to two decimals.  float(f"{x:.2f}") and round(x, 2) both yield *)
(* the double nearest to k / 100, k the number of hundredths nearest to    *)
(* the exact value of the double x, ties to even.                          *)
(***************************************************************************)
FRound2(x) == FDiv(FInt(FHundredths(x)), FInt(100))

\* a rational to the nearest hundredth, ties to even
Round2(x) ==
    LET t == 200 * x[1] + x[2]
        q == t \div (2 * x[2])
        tie == t % (2 * x[2]) = 0
    IN  RNorm(<<IF tie /\ q % 2 = 1 THEN q - 1 ELSE q, 100>>)

(***************************************************************************)
(* Posted text and its conversions: QueryDict.get, int(), strptime and the *)
(* date field of the ORM.                                                  *)
(***************************************************************************)
Digits == <<"0", "1", "2", "3", "4", "5", "6", "7", "8", "9">>
\* \d of re and the digits of int(): within Latin-1 these are "0".."9" alone
IsDigit(c) == \E i \in 1..Len(Digits) : Digits[i] = c
DigitValue(c) == (CHOOSE i \in 1..Len(Digits) : Digits[i] = c) - 1

\* request.POST.get(key) for the values posted under key: the last of them
PostGet(values) == values[Len(values)]
\* `not request.POST.get(key)`: the key is absent or its last value is ""
Falsy(values) == values = <<>> \/ PostGet(values) = <<>>

\* the characters int() skips at the two ends of its argument
IntSpace == {"\t", "\n", "", "\f", "\r", " ", "", " "}

\* the digits of an int() literal: single underscores between digits are allowed
IntBody(t) ==
    /\ t # <<>>
    /\ IsDigit(t[1]) /\ IsDigit(t[Len(t)])
    /\ \A i \in 1..Len(t) : IsDigit(t[i]) \/ t[i] = "_"
    /\ \A i \in 1..(Len(t) - 1) : ~(t[i] = "_" /\ t[i + 1] = "_")

RECURSIVE DecimalValue(_, _, _)
DecimalValue(t, i, acc) ==
    IF i > Len(t) THEN acc
    ELSE DecimalValue(t, i + 1, IF t[i] = "_" THEN acc ELSE acc * 10 + DigitValue(t[i]))

\* int(text) for a str: ok is FALSE when it raises ValueError
PyInt(text) ==
    LET t == StripSet(text, IntSpace)
        signed == t # <<>> /\ t[1] \in {"+", "-"}
        body == IF signed THEN Tail(t) ELSE t
    IN  IF IntBody(body)
        THEN [ok |-> TRUE,
              value |-> IF signed /\ t[1] = "-" THEN 0 - DecimalValue(body, 1, 0)
                        ELSE DecimalValue(body, 1, 0)]
        ELSE [ok |-> FALSE, value |-> 0]

IsLeap(y) == (y % 4 = 0 /\ y % 100 # 0) \/ y % 400 = 0
DaysInMonth(y, m) ==
    IF m = 2 THEN (IF IsLeap(y) THEN 29 ELSE 28)
    ELSE IF m \in {4, 6, 9, 11} THEN 30 ELSE 31
\* datetime.date(y, m, d) does not raise
ValidDate(y, m, d) == y \in 1..9999 /\ m \in 1..12 /\ d >= 1 /\ d <= DaysInMonth(y, m)

\* text[i] is a digit of the set lo..hi
DigitAt(text, i, lo, hi) ==
    i <= Len(text) /\ IsDigit(text[i]) /\ DigitValue(text[i]) \in lo..hi
\* text[i] is the character c
CharAt(text, i, c) == i <= Len(text) /\ text[i] = c

\* the number of characters %m takes at position i: the first alternative of
\* 1[0-2]|0[1-9]|[1-9] that matches, 0 when none does
MonthLen(text, i) ==
    IF CharAt(text, i, "1") /\ DigitAt(text, i + 1, 0, 2) THEN 2
    ELSE IF CharAt(text, i, "0") /\ DigitAt(text, i + 1, 1, 9) THEN 2
    ELSE IF DigitAt(text, i, 1, 9) THEN 1
    ELSE 0

\* the number of characters %d takes at position i: the first alternative of
\* 3[01]|[12]\d|0[1-9]|[1-9]| [1-9] that matches, 0 when none does
DayLen(text, i) ==
    IF CharAt(text, i, "3") /\ DigitAt(text, i + 1, 0, 1) THEN 2
    ELSE IF DigitAt(text, i, 1, 2) /\ DigitAt(text, i + 1, 0, 9) THEN 2
    ELSE IF CharAt(text, i, "0") /\ DigitAt(text, i + 1, 1, 9) THEN 2
    ELSE IF DigitAt(text, i, 1, 9) THEN 1
    ELSE IF CharAt(text, i, " ") /\ DigitAt(text, i + 1, 1, 9) THEN 2
    ELSE 0

\* the value of the digits of text[i .. i + n - 1], a leading space skipped
FieldValue(text, i, n) ==
    DecimalValue(SubSeq(text, IF text[i] = " " THEN i + 1 ELSE i, i + n - 1), 1, 0)

NoDate == [ok |-> FALSE, value |-> <<>>]

\* days before 1 January of year y and before the first of month m, in the
\* proleptic Gregorian calendar; the ordinal of 0001-01-01 is 1, a Monday
DaysBeforeYear(y) == (y - 1) * 365 + (y - 1) \div 4 - (y - 1) \div 100 + (y - 1) \div 400
RECURSIVE DaysBeforeMonth(_, _)
DaysBeforeMonth(y, m) ==
    IF m = 1 THEN 0 ELSE DaysBeforeMonth(y, m - 1) + DaysInMonth(y, m - 1)
Ordinal(y, m, d) == DaysBeforeYear(y) + DaysBeforeMonth(y, m) + d
\* 0 for Monday .. 6 for Sunday
Weekday(y, m, d) == (Ordinal(y, m, d) + 6) % 7

\* datetime.date(y, m, d)
CalendarDate(y, m, d) ==
    IF ValidDate(y, m, d) THEN [ok |-> TRUE, value |-> <<y, m, d>>] ELSE NoDate

\* the date of ordinal n, a day of year y - 1, y or y + 1
DateOfOrdinal(n, y) ==
    LET days == {t \in ((y - 1)..(y + 1)) \X (1..12) \X (1..31) :
                    ValidDate(t[1], t[2], t[3]) /\ Ordinal(t[1], t[2], t[3]) = n}
    IN  IF days = {} THEN NoDate ELSE [ok |-> TRUE, value |-> CHOOSE t \in days : TRUE]

\* the ordinal of the Monday of ISO week 1 of year y: the week that holds 4 January
Week1Monday(y) ==
    Ordinal(y, 1, 1) - Weekday(y, 1, 1) + (IF Weekday(y, 1, 1) > 3 THEN 7 ELSE 0)

\* year y has an ISO week 53
LongYear(y) == Weekday(y, 1, 1) = 3 \/ (Weekday(y, 1, 1) = 2 /\ IsLeap(y))

\* the date of day d (1 for Monday) of ISO week w of year y
WeekDate(y, w, d) ==
    IF y \in 1..9999 /\ w \in 1..53 /\ (w = 53 => LongYear(y)) /\ d \in 1..7
    THEN DateOfOrdinal(Week1Monday(y) + (w - 1) * 7 + (d - 1), y)
    ELSE NoDate

\* text[i .. i + n - 1] are n digits
DigitsAt(text, i, n) == \A k \in i..(i + n - 1) : DigitAt(text, k, 0, 9)

\* Www, Www-D or WwwD from the W at position p on; sep: the year was followed by
\* "-"; q is the position of the day.  What follows the day is not looked at.
IsoWeekDay(text, y, sep, p, q) ==
    IF (CharAt(text, p + 3, "-") <=> sep) /\ DigitAt(text, q, 0, 9)
    THEN WeekDate(y, FieldValue(text, p + 1, 2), FieldValue(text, q, 1))
    ELSE NoDate
IsoWeekForm(text, y, sep, p) ==
    IF ~DigitsAt(text, p + 1, 2) THEN NoDate
    ELSE IF Len(text) = p + 2 THEN WeekDate(y, FieldValue(text, p + 1, 2), 1)
    ELSE IsoWeekDay(text, y, sep, p, p + 3 + (IF sep THEN 1 ELSE 0))

\* MM-DD or MMDD from position p on; q is the position of the day.  What follows
\* the day is not looked at.
IsoMonthDay(text, y, sep, p, q) ==
    IF DigitsAt(text, p, 2) /\ (CharAt(text, p + 2, "-") <=> sep) /\ DigitsAt(text, q, 2)
    THEN CalendarDate(y, FieldValue(text, p, 2), FieldValue(text, q, 2))
    ELSE NoDate
IsoMonthForm(text, y, sep, p) == IsoMonthDay(text, y, sep, p, p + 2 + (IF sep THEN 1 ELSE 0))

\* what follows the year, from position p on
IsoForm(text, y, sep, p) ==
    IF CharAt(text, p, "W") THEN IsoWeekForm(text, y, sep, p) ELSE IsoMonthForm(text, y, sep, p)

\* datetime.date.fromisoformat(text) of Python 3.11: a text of 7, 8 or 10 characters
\* that starts with YYYY-MM-DD, YYYYMMDD, YYYY-Www, YYYYWww, YYYY-Www-D or YYYYWwwD;
\* ok is FALSE when it raises ValueError
FromIsoFormat(text) ==
    IF Len(text) \in {7, 8, 10} /\ DigitsAt(text, 1, 4)
    THEN IsoForm(text, FieldValue(text, 1, 4), CharAt(text, 5, "-"),
                 IF CharAt(text, 5, "-") THEN 6 ELSE 5)
    ELSE NoDate

\* the number of digits, at most two, at position i
DigitRun(text, i) ==
    IF DigitAt(text, i, 0, 9) THEN (IF DigitAt(text, i + 1, 0, 9) THEN 2 ELSE 1) ELSE 0

\* text without one final newline: $ of re matches before it
BeforeFinalNewline(text) ==
    IF text # <<>> /\ text[Len(text)] = "\n" THEN SubSeq(text, 1, Len(text) - 1) ELSE text

\* the month of mlen digits at position 6 and the day after the next "-"
DateFields(body, mlen, dpos, dlen) ==
    IF mlen = 0 \/ ~CharAt(body, 6 + mlen, "-") \/ dlen = 0 \/ dpos + dlen - 1 # Len(body)
    THEN NoDate
    ELSE CalendarDate(FieldValue(body, 1, 4), FieldValue(body, 6, mlen),
                      FieldValue(body, dpos, dlen))

\* datetime.strptime(text, "%Y-%m-%d").date(): the date <<y, m, d>>; ok is FALSE
\* when it raises ValueError (no match, unconverted data, no such day)
Strptime(text) ==
    IF DigitsAt(text, 1, 4) /\ CharAt(text, 5, "-")
    THEN DateFields(text, MonthLen(text, 6), 7 + MonthLen(text, 6),
                    DayLen(text, 7 + MonthLen(text, 6)))
    ELSE NoDate

\* the match of \d{4}-\d{1,2}-\d{1,2}$ made a date
RegexDate(body) ==
    IF DigitsAt(body, 1, 4) /\ CharAt(body, 5, "-")
    THEN DateFields(body, DigitRun(body, 6), 7 + DigitRun(body, 6),
                    DigitRun(body, 7 + DigitRun(body, 6)))
    ELSE NoDate

\* DateField.to_python for a str, as Batch.objects.create applies it to `date`:
\* django.utils.dateparse.parse_date tries date.fromisoformat, then the expression
\* \d{4}-\d{1,2}-\d{1,2}$; ok is FALSE when ValidationError is raised
ParseDate(text) ==
    IF FromIsoFormat(text).ok THEN FromIsoFormat(text) ELSE RegexDate(BeforeFinalNewline(text))

(***************************************************************************)
(* Inputs of the model: phase codes, names and text lines.                  *)
(***************************************************************************)
P_11_JEE == <<"1", "1", " ", "J", "E", "E">>
P_11_jee_padded == <<" ", "1", "1", " ", "j", "e", "e", " ">>
P_11th_Jee == <<"1", "1", "t", "h", " ", "J", "e", "e">>
P_12_Medical == <<"1", "2", " ", "M", "e", "d", "i", "c", "a", "l">>
P_9th == <<"9", "t", "h">>
P_Class_10 == <<"C", "l", "a", "s", "s", " ", "1", "0">>
P_11 == <<"1", "1">>
P_12th == <<"1", "2", "t", "h">>
P_Foundation == <<"F", "o", "u", "n", "d", "a", "t", "i", "o", "n">>
P_blank == <<" ", " ">>
P_2019_11_JEE == <<"2", "0", "1", "9", " ", "1", "1", " ", "J", "E", "E">>
N_Physics_padded == <<" ", "P", "h", "y", "s", "i", "c", "s", " ">>
T_Asha == <<"A", "s", "h", "a">>
T_Ravi_padded == <<" ", "R", "a", "v", "i", " ">>
T_Ravi == <<"R", "a", "v", "i">>
S_Computer == <<"C", "o", "m", "p", "u", "t", "e", "r">>
S_Math == <<"M", "a", "t", "h">>
Line_bio == <<"B", "i", "o", "l", "o", "g", "y", " ", "3", " ", "4", " ", "5">>
Line_bio_head == <<"B", "I", "O", "L", "O", "G", "Y", " ", "f", "e", "e", "d", "b", "a", "c", "k">>
Line_nums == <<"1", "7", " ", "8", " ", "9">>
V_B1 == <<"B", "1">>
V_40 == <<"4", "0">>
V_40_padded == <<" ", "4", "0", " ">>
V_forty == <<"f", "o", "r", "t", "y">>
V_30 == <<"3", "0">>
V_minus1 == <<"-", "1">>
V_0 == <<"0">>
V_1 == <<"1">>
V_abc == <<"a", "b", "c">>
D_2026_01_15 == <<"2", "0", "2", "6", "-", "0", "1", "-", "1", "5">>
D_2026_1_5 == <<"2", "0", "2", "6", "-", "1", "-", "5">>
D_slashed == <<"0", "1", "/", "0", "2", "/", "2", "0", "2", "6">>
D_feb30 == <<"2", "0", "2", "6", "-", "0", "2", "-", "3", "0">>
D_20260115 == <<"2", "0", "2", "6", "0", "1", "1", "5">>
Line_phys == <<"P", "h", "y", "s", "i", "c", "s", " ", "1", " ", "2", " ", "3">>

RECURSIVE SeqsUpTo(_, _)
SeqsUpTo(S, n) ==
    IF n = 0 THEN {<<>>}
    ELSE LET shorter == SeqsUpTo(S, n - 1)
         IN  shorter \cup {Append(q, x) : q \in {r \in shorter : Len(r) = n - 1}, x \in S}

Phases == {<<>>, P_11_JEE, P_11_jee_padded, P_11th_Jee, P_12_Medical, P_9th, P_Class_10,
           P_11, P_12th, P_Foundation, P_blank, P_2019_11_JEE}
TotalResponsiveValues == {V_minus1, V_0, V_1, V_30}
Documents == SeqsUpTo(PageLibrary, MaxPages)
SubjectLists == SeqsUpTo({S_Physics, S_Maths, S_ComputerScience}, MaxSubjects)
PostedSubjectLists == SeqsUpTo({S_Physics, N_Physics_padded, S_Maths}, MaxSubjects)
LegacySubjectLists == SeqsUpTo({S_Physics, S_Biology}, MaxSubjects)
PdfTexts == {<<>>, <<Line_bio>>, <<Line_bio_head, Line_nums>>, <<Line_bio, Line_phys>>}
\* teacher_name[] of n entries
TeacherList(n) == [i \in 1..n |-> IF i % 2 = 1 THEN T_Asha ELSE T_Ravi_padded]

\* no request: the run is a direct call of parse_omr
NoRequest ==
    [method |-> "none", batch_code |-> <<>>, total_students |-> <<>>,
     total_responsive |-> <<>>, date |-> <<>>, omr_sheet |-> "absent"]
\* a POST with every field filled in; omr_sheet is "absent", "pdf" or "not_pdf"
\* (a file no PDF library can read)
ValidPost ==
    [method |-> "POST", batch_code |-> <<V_B1>>, total_students |-> <<V_40>>,
     total_responsive |-> <<V_30>>, date |-> <<D_2026_01_15>>, omr_sheet |-> "pdf"]
\* requests that differ from ValidPost in one field
PostVariants ==
    { [ValidPost EXCEPT !.method = "GET"],
      [ValidPost EXCEPT !.batch_code = <<>>],
      [ValidPost EXCEPT !.batch_code = << <<>> >>],
      [ValidPost EXCEPT !.total_students = <<>>],
      [ValidPost EXCEPT !.total_students = <<V_forty>>],
      [ValidPost EXCEPT !.total_students = <<V_forty, V_40_padded>>],
      [ValidPost EXCEPT !.total_responsive = <<>>],
      [ValidPost EXCEPT !.total_responsive = << <<>> >>],
      [ValidPost EXCEPT !.total_responsive = <<V_abc>>],
      [ValidPost EXCEPT !.total_responsive = <<V_minus1>>],
      [ValidPost EXCEPT !.date = <<>>],
      [ValidPost EXCEPT !.date = << <<>> >>],
      [ValidPost EXCEPT !.date = <<D_slashed>>],
      [ValidPost EXCEPT !.date = <<D_feb30>>],
      [ValidPost EXCEPT !.date = <<D_2026_1_5>>],
      [ValidPost EXCEPT !.date = <<D_20260115>>],
      [ValidPost EXCEPT !.omr_sheet = "absent"],
      [ValidPost EXCEPT !.omr_sheet = "not_pdf"] }
\* the Teacher rows a request may find: one Asha, or two of that name
StoredTeachers ==
    { <<[teacher_name |-> T_Asha]>>,
      <<[teacher_name |-> T_Asha], [teacher_name |-> T_Asha]>> }

(***************************************************************************)
(* The tables of models.py.  A table is the sequence of its rows, the id   *)
(* of a row its position.  Every create() and save() is committed when it  *)
(* is called: the views open no transaction.                               *)
(***************************************************************************)
\* the ids of the Teacher rows of a name
TeacherIds(table, teacher_name) ==
    {i \in 1..Len(table) : table[i].teacher_name = teacher_name}

\* Teacher.objects.get_or_create(teacher_name=...): MultipleObjectsReturned is
\* raised when several rows have the name
GetOrCreateRaises(table, teacher_name) == Cardinality(TeacherIds(table, teacher_name)) > 1

\* the table after get_or_create: a row is added when none has the name
GetOrCreate(table, teacher_name) ==
    IF TeacherIds(table, teacher_name) = {}
    THEN Append(table, [teacher_name |-> teacher_name])
    ELSE table

\* the id of the teacher get_or_create returned
TeacherOf(table, teacher_name) == CHOOSE i \in TeacherIds(table, teacher_name) : TRUE

\* the Performance row created for the Subject row of id subject
PerformanceRow(subject_rows, subject) ==
    [batch |-> subject_rows[subject].batch,
     subject |-> subject,
     teacher |-> subject_rows[subject].teacher,
     remarks |-> <<>>,
     average_percentage |-> subject_rows[subject].average_percentage]

(***************************************************************************)
(* views.py upload: lines 59-159.                                          *)
(***************************************************************************)
\* zip(subject_names, teacher_names)
Zip(a, b) == [i \in 1..Min(Len(a), Len(b)) |-> <<a[i], b[i]>>]

\* cleaned_subjects of line 99
CleanedSubjects(names) == [i \in 1..Len(names) |-> Strip(names[i])]

\* lines 60-88, up to the arguments of Batch.objects.create.  outcome is
\* "rendered" (the form page is returned), "raised" (an exception leaves the view)
\* or "create" (the row batch is handed to the database); total_responsive is the
\* local of line 66, 0 while unassigned
UploadFields(request, request_phase, names) ==
    LET responsive == IF request.total_responsive = <<>> THEN [ok |-> TRUE, value |-> 0]
                      ELSE PyInt(PostGet(request.total_responsive))
        students == PyInt(PostGet(request.total_students))
        date == IF request.date = <<>> THEN [ok |-> TRUE, value |-> <<>>]
                ELSE ParseDate(PostGet(request.date))
        Answer(outcome, value, batch) ==
            [outcome |-> outcome, total_responsive |-> value, batch |-> batch]
    IN  IF request.method # "POST" THEN Answer("rendered", 0, <<>>)
        ELSE IF ~responsive.ok THEN Answer("raised", 0, <<>>)
        ELSE IF request.omr_sheet = "absent" THEN Answer("rendered", responsive.value, <<>>)
        ELSE IF Falsy(request.batch_code) \/ request_phase = <<>>
                \/ Falsy(request.total_students) \/ names = <<>>
        THEN Answer("rendered", responsive.value, <<>>)
        ELSE IF ~students.ok \/ ~date.ok THEN Answer("raised", responsive.value, <<>>)
        ELSE Answer("create", responsive.value,
                    [batch_code |-> PostGet(request.batch_code),
                     phase |-> request_phase,
                     total_students |-> students.value,
                     total_responsive |-> responsive.value,
                     date |-> date.value])

\* counts of line 109
LookupCounts(aggr, subject_name) ==
    IF DictHas(aggr, subject_name) THEN DictGet(aggr, subject_name) ELSE ZeroCounts

\* average_percentage of lines 114-122
UploadPercentage(counts) ==
    LET five_star == counts["5_star"]
        three_star == counts["3_star"]
        one_star == counts["1_star"]
        total_responses == five_star + three_star + one_star
        score == five_star * 5 + three_star * 3 + one_star * 1
        average_percentage ==
            IF total_responses > 0
            THEN FMul(FDiv(FInt(score), FMul(FInt(total_responses), FInt(5))), FInt(100))
            ELSE FZero
    IN  FRound2(average_percentage)

\* the Subject row of lines 126-134, for the batch and the teacher of those ids
UploadRow(batch, aggr, subject_name, teacher) ==
    LET counts == LookupCounts(aggr, subject_name)
    IN  [batch |-> batch,
         subject_name |-> Strip(subject_name),
         teacher |-> teacher,
         five_star |-> counts["5_star"],
         three_star |-> counts["3_star"],
         one_star |-> counts["1_star"],
         average_percentage |-> UploadPercentage(counts),
         teacher_remarks |-> <<>>]

(***************************************************************************)
(* feedback/views.py: parse_omr_pdf (lines 45-92) and upload (96-167).     *)
(***************************************************************************)
\* re.findall(r"\d+", text) as integers; cur = -1 while outside a run of digits
RECURSIVE NumScan(_, _, _, _)
NumScan(text, i, cur, out) ==
    IF i > Len(text) THEN (IF cur >= 0 THEN Append(out, cur) ELSE out)
    ELSE IF IsDigit(text[i])
         THEN NumScan(text, i + 1, (IF cur >= 0 THEN cur * 10 ELSE 0) + DigitValue(text[i]), out)
         ELSE NumScan(text, i + 1, -1, IF cur >= 0 THEN Append(out, cur) ELSE out)
FindNumbers(text) == NumScan(text, 1, -1, <<>>)

Stars3(a, b, c) == [s \in {"5_star", "3_star", "1_star"} |->
                       IF s = "5_star" THEN a ELSE IF s = "3_star" THEN b ELSE c]

hardcoded_subjects ==
    << <<S_Physics,   Stars3(400, 100, 100)>>,
       <<S_Chemistry, Stars3(350, 200, 150)>>,
       <<S_Maths,     Stars3(300, 300, 100)>>,
       <<S_Computer,  Stars3(350, 150, 100)>>,
       <<S_English,   Stars3(390, 180, 140)>>,
       <<S_Language,  Stars3(400, 200, 140)>>,
       <<S_Math,      Stars3(300, 210, 120)>>,
       <<S_Social,    Stars3(300, 180, 130)>>,
       <<S_Botany,    Stars3(300, 220, 140)>>,
       <<S_Zoology,   Stars3(300, 200, 150)>> >>

\* line 50, then lines 65-67
RECURSIVE InitialFeedback(_, _, _)
InitialFeedback(names, i, d) ==
    IF i > Len(names) THEN d
    ELSE InitialFeedback(names, i + 1, DictPut(d, names[i], ZeroCounts))

RECURSIVE ApplyHardcoded(_, _, _)
ApplyHardcoded(names, i, d) ==
    IF i > Len(names) THEN d
    ELSE ApplyHardcoded(names, i + 1,
            IF DictHas(hardcoded_subjects, names[i])
            THEN DictPut(d, names[i], DictGet(hardcoded_subjects, names[i]))
            ELSE d)

\* lines 80-89 for one line and one subject
AccumulateLine(d, lines, idx, subject) ==
    IF Contains(Lower(subject), Lower(lines[idx])) /\ ~DictHas(hardcoded_subjects, subject)
    THEN LET first == FindNumbers(lines[idx])
             numbers == IF Len(first) < 3 /\ idx + 1 <= Len(lines)
                        THEN first \o FindNumbers(lines[idx + 1])
                        ELSE first
         IN  IF Len(numbers) >= 3
             THEN DictPut(d, subject,
                     AddCounts(DictGet(d, subject), Stars3(numbers[1], numbers[2], numbers[3])))
             ELSE d
    ELSE d

RECURSIVE SubjectLoop(_, _, _, _, _)
SubjectLoop(d, lines, idx, names, k) ==
    IF k > Len(names) THEN d
    ELSE SubjectLoop(AccumulateLine(d, lines, idx, names[k]), lines, idx, names, k + 1)

RECURSIVE LineLoop(_, _, _, _)
LineLoop(d, lines, idx, names) ==
    IF idx > Len(lines) THEN d
    ELSE LineLoop(SubjectLoop(d, lines, idx, names, 1), lines, idx + 1, names)

\* feedback_data returned by parse_omr_pdf; lines holds the stripped non-empty lines
parse_omr_pdf(lines, names) ==
    LineLoop(ApplyHardcoded(names, 1, InitialFeedback(names, 1, <<>>)), lines, 1, names)

QUESTIONS_PER_SUBJECT == 20
MAX_MARKS_PER_QUESTION == 5

\* average_percentage of lines 130-144
LegacyPercentage(subject_feedback, responsive) ==
    LET max_possible_score == responsive * QUESTIONS_PER_SUBJECT * MAX_MARKS_PER_QUESTION
        weighted_score == 5 * subject_feedback["5_star"] + 3 * subject_feedback["3_star"]
                          + 1 * subject_feedback["1_star"]
        average_percentage ==
            IF max_possible_score # 0
            THEN FMul(FDiv(FInt(weighted_score), FInt(max_possible_score)), FInt(100))
            ELSE FInt(0)
    IN  FMin(FInt(100), FRound2(average_percentage))

\* the Subject row of lines 146-155, for the batch and the teacher of those ids
LegacyRow(batch, feedback, subject_name, teacher, responsive) ==
    LET subject_feedback == LookupCounts(feedback, subject_name)
    IN  [batch |-> batch,
         subject_name |-> subject_name,
         teacher |-> teacher,
         five_star |-> subject_feedback["5_star"],
         three_star |-> subject_feedback["3_star"],
         one_star |-> subject_feedback["1_star"],
         average_percentage |-> LegacyPercentage(subject_feedback, responsive),
         teacher_remarks |-> <<>>]

\* lines 97-122, up to the arguments of Batch.objects.create; outcome as in
\* UploadFields
LegacyFields(request, request_phase) ==
    LET students == PyInt(PostGet(request.total_students))
        responsive == PyInt(PostGet(request.total_responsive))
        batch_date == Strptime(PostGet(request.date))
        Answer(outcome, value, batch) ==
            [outcome |-> outcome, total_responsive |-> value, batch |-> batch]
    IN  IF request.method # "POST" THEN Answer("rendered", 0, <<>>)
        ELSE IF Falsy(request.batch_code) \/ request_phase = <<>>
                \/ Falsy(request.total_students) \/ Falsy(request.total_responsive)
                \/ request.omr_sheet = "absent" \/ Falsy(request.date)
        THEN Answer("rendered", 0, <<>>)
        ELSE IF ~students.ok \/ ~responsive.ok THEN Answer("raised", 0, <<>>)
        ELSE IF ~batch_date.ok THEN Answer("raised", responsive.value, <<>>)
        ELSE Answer("create", responsive.value,
                    [batch_code |-> PostGet(request.batch_code),
                     phase |-> request_phase,
                     total_students |-> students.value,
                     total_responsive |-> responsive.value,
                     date |-> batch_date.value])

(***************************************************************************)
(* FormCounts is a function of the page, the layout and expected_questions *)
(* alone.  FormCountsTable holds its value for every input the model draws,*)
(* computed once, and the page loop reads the table.                       *)
(***************************************************************************)
ReachableLayouts ==
    {Layout(ResolveSubjects(s, ph)) : s \in SubjectLists, ph \in Phases}
    \cup {Layout(ResolveSubjects(CleanedSubjects(n), ph)) : n \in PostedSubjectLists, ph \in Phases}
DecodeKeys ==
    PageLibrary \X ReachableLayouts \X (ExpectedQuestionsValues \cup {DefaultExpectedQuestions})
FormCountsTable == [k \in DecodeKeys |-> FormCounts(k[1], k[2], k[3])] @@ <<>>
FormCountsOf(page, fracs, eq) == FormCountsTable[<<page, fracs, eq>>]

(***************************************************************************)
(* The files a run touches.                                                *)
(***************************************************************************)
\* the directory debug_dir: "writable" (makedirs and imwrite succeed), "readonly"
\* (it exists, imwrite returns False), "denied" (makedirs raises)
DebugDirStates == {"writable", "readonly", "denied"}

\* the first n elements of a list
Prefix(q, n) == SubSeq(q, 1, n)

\* debug_img of lines 203-241: the page, the marks of its form and the running
\* percentages drawn over it
DebugImage(page, form_counts, aggr) ==
    [page |-> page, star_counts |-> form_counts, aggregated |-> aggr]

\* line 243: cv2.imwrite of debug_page{idx}.png into debug_dir
WriteDebug(files, dir, idx, image) ==
    IF dir = "writable" THEN DictPut(files, idx, image) ELSE files

\* what os.remove does: it removes the file, raises PermissionError, or raises
\* another OSError
Removals == {"removed", "PermissionError", "OSError"}

\* views.upload, lines 151-157: the temporary file after the finally block
TmpAfterFinally(path_set, file, removal) ==
    IF path_set /\ file = "exists"
    THEN (IF removal = "removed" THEN "removed" ELSE "exists")
    ELSE file

\* the finally block lets an OSError of os.remove other than PermissionError out
FinallyRaises(path_set, file, removal) ==
    path_set /\ file = "exists" /\ removal = "OSError"

(***************************************************************************)
(* The state machine.  A run is one call of parse_omr ("parse_omr"), one   *)
(* POST to views.upload ("upload"), which calls parse_omr, or one POST to  *)
(* feedback/views.upload ("legacy").                                       *)
(***************************************************************************)
\* nothing posted, empty tables
NoView ==
    /\ post = NoRequest
    /\ batches = <<>>
    /\ teachers = <<>>
    /\ performances = <<>>
    /\ session = <<>>
    /\ feedback_data = <<>>

InitParse ==
    /\ entry = "parse_omr"
    /\ pc = "call"
    /\ subjects_arg \in SubjectLists
    /\ phase \in (IF subjects_arg = <<>> THEN Phases ELSE {<<>>, P_11_JEE})
    /\ expected_questions \in ExpectedQuestionsValues
    /\ subject_names = <<>>
    /\ teacher_names = <<>>
    /\ pdf_lines = <<>>
    /\ debug_dir \in DebugDirStates
    /\ post = NoRequest
    /\ teachers = <<>>

InitUpload ==
    /\ entry = "upload"
    /\ pc = "request"
    /\ subjects_arg = <<>>
    /\ expected_questions = DefaultExpectedQuestions
    /\ pdf_lines = <<>>
    /\ \/ /\ post = ValidPost
          /\ phase \in {<<>>, P_11_JEE}
          /\ subject_names \in PostedSubjectLists
          /\ debug_dir \in {"writable", "denied"}
          /\ teachers = <<>>
       \/ /\ post \in PostVariants
          /\ phase = P_11_JEE
          /\ subject_names = <<S_Physics>>
          /\ debug_dir = "writable"
          /\ teachers = <<>>
       \/ /\ post = ValidPost
          /\ phase = P_11_JEE
          /\ subject_names = <<S_Physics, S_Maths>>
          /\ debug_dir = "writable"
          /\ teachers \in StoredTeachers
    /\ teacher_names = TeacherList(Len(subject_names))

InitLegacy ==
    /\ entry = "legacy"
    /\ pc = "request"
    /\ subjects_arg = <<>>
    /\ expected_questions = QUESTIONS_PER_SUBJECT
    /\ debug_dir = "writable"
    /\ \/ /\ post \in {[ValidPost EXCEPT !.total_responsive = <<v>>] : v \in TotalResponsiveValues}
          /\ phase \in {<<>>, P_11_JEE}
          /\ subject_names \in LegacySubjectLists
          /\ teacher_names \in {TeacherList(Len(subject_names)),
                                TeacherList(Max(0, Len(subject_names) - 1))}
          /\ pdf_lines \in PdfTexts
          /\ teachers = <<>>
       \/ /\ post \in PostVariants
          /\ phase = P_11_JEE
          /\ subject_names = <<S_Biology>>
          /\ teacher_names = TeacherList(1)
          /\ pdf_lines = <<Line_bio>>
          /\ teachers = <<>>
       \/ /\ post = ValidPost
          /\ phase = P_11_JEE
          /\ subject_names = <<S_Biology, S_Physics>>
          /\ teacher_names = TeacherList(2)
          /\ pdf_lines = <<Line_bio>>
          /\ teachers \in StoredTeachers

Init ==
    /\ (InitParse \/ InitUpload \/ InitLegacy)
    /\ total_responsive = 0
    /\ subjects = <<>>
    /\ subject_y_fracs = <<>>
    /\ images = <<>>
    /\ aggregated = <<>>
    /\ per_form = <<>>
    /\ results = <<>>
    /\ raw_percent = <<>>
    /\ rows = <<>>
    /\ load_failed = FALSE
    /\ debug_files = <<>>
    /\ tmp_path = FALSE
    /\ tmp_file = "none"
    /\ runs = <<>>
    /\ remarks = <<>>
    /\ batches = <<>>
    /\ performances = <<>>
    /\ session = <<>>
    /\ feedback_data = <<>>

\* what no step of a view changes
requestVars == <<entry, phase, expected_questions, subject_names, teacher_names,
                 pdf_lines, debug_dir, post, runs, remarks>>
\* the locals of parse_omr and the files it writes
parseVars == <<subjects, subject_y_fracs, images, aggregated, per_form, results,
               raw_percent, load_failed, debug_files>>

\* views.upload, lines 60-88: the posted fields, the guards and
\* Batch.objects.create, which the database may refuse
UploadBegin ==
    /\ entry = "upload" /\ pc = "request"
    /\ LET fields == UploadFields(post, phase, subject_names)
       IN  /\ total_responsive' = fields.total_responsive
           /\ \E db_ok \in BOOLEAN :
                 IF fields.outcome = "create" /\ db_ok
                 THEN /\ batches' = Append(batches, fields.batch)
                      /\ pc' = "tempfile"
                 ELSE /\ UNCHANGED batches
                      /\ pc' = IF fields.outcome = "rendered" THEN "rendered" ELSE "error"
    /\ UNCHANGED <<requestVars, parseVars, subjects_arg, rows, tmp_path, tmp_file,
                   teachers, performances, session, feedback_data>>

\* views.upload, lines 90-99: the temporary file.  NamedTemporaryFile may raise
\* before a file exists ("no_file"), and chunks() or write() after it exists
\* ("partial"); both leave tmp_path None and go through the finally block of lines
\* 151-157, which then removes nothing
UploadTempFile ==
    /\ entry = "upload" /\ pc = "tempfile"
    /\ \E outcome \in {"no_file", "partial", "written"} :
          /\ tmp_file' = IF outcome = "no_file" THEN tmp_file ELSE "exists"
          /\ tmp_path' = (outcome = "written")
          /\ pc' = IF outcome = "written" THEN "call" ELSE "error"
          /\ subjects_arg' = IF outcome = "written" THEN CleanedSubjects(subject_names)
                             ELSE subjects_arg
    /\ UNCHANGED <<requestVars, parseVars, total_responsive, rows, batches, teachers,
                   performances, session, feedback_data>>

\* parse_omr, lines 141-191: subject resolution, layout and os.makedirs, which
\* raises when the directory cannot be created
ResolveLayout ==
    /\ pc = "call"
    /\ subjects' = ResolveSubjects(subjects_arg, phase)
    /\ subject_y_fracs' = Layout(subjects')
    /\ pc' = IF debug_dir = "denied" THEN "raised" ELSE "load"
    /\ UNCHANGED <<entry, subjects_arg, phase, expected_questions, images,
                   aggregated, per_form, results, raw_percent, subject_names,
                   teacher_names, total_responsive, pdf_lines, rows,
                   load_failed, debug_dir, debug_files, tmp_path, tmp_file, runs, remarks,
                   viewState>>

\* parse_omr, lines 193-199: load_images and the empty return.  The pages the
\* file holds are an input; loading a PDF may raise after `loaded` of them, and
\* load_images then returns the pages appended so far (lines 96-107, 114).  A
\* file that is no PDF makes fitz.open raise: no page is loaded
LoadImages ==
    /\ pc = "load"
    /\ \E document \in Documents : \E loaded \in 0..Len(document) :
        /\ post.omr_sheet = "not_pdf" => loaded = 0
        /\ images' = Prefix(document, loaded)
        /\ load_failed' = (loaded < Len(document))
        /\ IF loaded = 0
           THEN /\ pc' = "done"
                /\ aggregated' = <<>>
           ELSE /\ pc' = "pages"
                /\ aggregated' = ZeroAggregate(subject_y_fracs)
    /\ per_form' = <<>>
    /\ results' = <<>>
    /\ UNCHANGED <<entry, subjects_arg, phase, expected_questions, subjects,
                   subject_y_fracs, raw_percent, subject_names, teacher_names,
                   total_responsive, pdf_lines, rows,
                   debug_dir, debug_files, tmp_path, tmp_file, runs, remarks,
                   viewState>>

\* parse_omr, lines 201-243: one iteration of the page loop
DecodePage ==
    /\ pc = "pages"
    /\ Len(per_form) < Len(images)
    /\ LET idx == Len(per_form) + 1
           form_counts == FormCountsOf(images[idx], subject_y_fracs, expected_questions)
       IN  /\ aggregated' = FoldForm(aggregated, form_counts)
           /\ per_form' = Append(per_form, FormRecord(idx, form_counts))
           /\ debug_files' = WriteDebug(debug_files, debug_dir, idx,
                                        DebugImage(images[idx], form_counts, aggregated'))
    /\ UNCHANGED <<entry, pc, subjects_arg, phase, expected_questions, subjects,
                   subject_y_fracs, images, results, raw_percent, subject_names,
                   teacher_names, total_responsive, pdf_lines, rows,
                   load_failed, debug_dir, tmp_path, tmp_file, runs, remarks,
                   viewState>>

\* parse_omr, lines 245-255: the verdicts and the return
Finalize ==
    /\ pc = "pages"
    /\ Len(per_form) = Len(images)
    /\ LET total_responses == Len(per_form)
       IN  /\ raw_percent' = [i \in 1..Len(aggregated) |->
                 <<aggregated[i][1], RawPercent(aggregated[i][2], total_responses, expected_questions)>>]
           /\ results' = [i \in 1..Len(aggregated) |->
                 <<aggregated[i][1], Verdict(aggregated[i][2], total_responses, expected_questions)>>]
    /\ pc' = "done"
    /\ UNCHANGED <<entry, subjects_arg, phase, expected_questions, subjects,
                   subject_y_fracs, images, aggregated, per_form, subject_names,
                   teacher_names, total_responsive, pdf_lines, rows,
                   load_failed, debug_dir, debug_files, tmp_path, tmp_file, runs, remarks,
                   viewState>>

\* an exception inside the try block of views.upload: the finally block of lines
\* 151-157 runs, then the exception (or the one os.remove raised) leaves the view
UploadRaise ==
    /\ pc' = "error"
    /\ \E removal \in Removals : tmp_file' = TmpAfterFinally(tmp_path, tmp_file, removal)

\* views.upload, line 124, at the head of the loop of line 108: pc is "done" while
\* the view stands between two iterations
UploadGetTeacher ==
    /\ entry = "upload" /\ pc = "done"
    /\ Len(rows) < Len(Zip(subject_names, teacher_names))
    /\ LET teacher_name == Strip(Zip(subject_names, teacher_names)[Len(rows) + 1][2])
       IN  \E db_ok \in BOOLEAN :
              IF db_ok /\ ~GetOrCreateRaises(teachers, teacher_name)
              THEN /\ teachers' = GetOrCreate(teachers, teacher_name)
                   /\ pc' = "save_subject"
                   /\ UNCHANGED tmp_file
              ELSE /\ UNCHANGED teachers
                   /\ UploadRaise
    /\ UNCHANGED <<requestVars, parseVars, subjects_arg, total_responsive, rows, tmp_path,
                   batches, performances, session, feedback_data>>

\* views.upload, lines 109-134: the Subject row of the iteration
UploadCreateSubject ==
    /\ entry = "upload" /\ pc = "save_subject"
    /\ LET pair == Zip(subject_names, teacher_names)[Len(rows) + 1]
           teacher == TeacherOf(teachers, Strip(pair[2]))
       IN  \E db_ok \in BOOLEAN :
              IF db_ok
              THEN /\ rows' = Append(rows, UploadRow(Len(batches), aggregated, pair[1], teacher))
                   /\ pc' = "save_performance"
                   /\ UNCHANGED tmp_file
              ELSE /\ UNCHANGED rows
                   /\ UploadRaise
    /\ UNCHANGED <<requestVars, parseVars, subjects_arg, total_responsive, tmp_path,
                   batches, teachers, performances, session, feedback_data>>

\* views.upload, lines 136-144: the Performance row of the iteration
UploadCreatePerformance ==
    /\ entry = "upload" /\ pc = "save_performance"
    /\ \E db_ok \in BOOLEAN :
          IF db_ok
          THEN /\ performances' = Append(performances, PerformanceRow(rows, Len(rows)))
               /\ pc' = "done"
               /\ UNCHANGED tmp_file
          ELSE /\ UNCHANGED performances
               /\ UploadRaise
    /\ UNCHANGED <<requestVars, parseVars, subjects_arg, total_responsive, rows, tmp_path,
                   batches, teachers, session, feedback_data>>

\* views.upload, lines 146-157, after the loop: the session, the redirect and the
\* finally block
UploadFinish ==
    /\ entry = "upload" /\ pc = "done"
    /\ Len(rows) = Len(Zip(subject_names, teacher_names))
    /\ session' = <<per_form>>
    /\ \E removal \in Removals :
          /\ tmp_file' = TmpAfterFinally(tmp_path, tmp_file, removal)
          /\ pc' = IF FinallyRaises(tmp_path, tmp_file, removal) THEN "error" ELSE "redirected"
    /\ UNCHANGED <<requestVars, parseVars, subjects_arg, total_responsive, rows, tmp_path,
                   batches, teachers, performances, feedback_data>>

\* views.upload, lines 151-157, when parse_omr raised: the finally block, then the
\* exception leaves the view
UploadAbort ==
    /\ entry = "upload" /\ pc = "raised"
    /\ UploadRaise
    /\ UNCHANGED <<requestVars, parseVars, subjects_arg, total_responsive, rows, tmp_path,
                   batches, teachers, performances, session, feedback_data>>

\* feedback/views.upload, lines 97-122: the guard, the conversions and
\* Batch.objects.create
LegacyBegin ==
    /\ entry = "legacy" /\ pc = "request"
    /\ LET fields == LegacyFields(post, phase)
       IN  /\ total_responsive' = fields.total_responsive
           /\ \E db_ok \in BOOLEAN :
                 IF fields.outcome = "create" /\ db_ok
                 THEN /\ batches' = Append(batches, fields.batch)
                      /\ pc' = "parse"
                 ELSE /\ UNCHANGED batches
                      /\ pc' = IF fields.outcome = "rendered" THEN "rendered" ELSE "error"
    /\ UNCHANGED <<requestVars, parseVars, subjects_arg, rows, tmp_path, tmp_file,
                   teachers, performances, session, feedback_data>>

\* feedback/views.upload, line 125: parse_omr_pdf; PyPDF2.PdfReader (line 70)
\* raises on a file that is no PDF
LegacyParse ==
    /\ entry = "legacy" /\ pc = "parse"
    /\ IF post.omr_sheet = "not_pdf"
       THEN /\ pc' = "error"
            /\ UNCHANGED feedback_data
       ELSE /\ pc' = "loop"
            /\ feedback_data' = parse_omr_pdf(pdf_lines, subject_names)
    /\ UNCHANGED <<requestVars, parseVars, subjects_arg, total_responsive, rows, tmp_path,
                   tmp_file, batches, teachers, performances, session>>

\* feedback/views.upload, line 133, at the head of the loop of line 132
LegacyGetTeacher ==
    /\ entry = "legacy" /\ pc = "loop"
    /\ Len(rows) < Len(Zip(subject_names, teacher_names))
    /\ LET teacher_name == Zip(subject_names, teacher_names)[Len(rows) + 1][2]
       IN  \E db_ok \in BOOLEAN :
              IF db_ok /\ ~GetOrCreateRaises(teachers, teacher_name)
              THEN /\ teachers' = GetOrCreate(teachers, teacher_name)
                   /\ pc' = "save_subject"
              ELSE /\ UNCHANGED teachers
                   /\ pc' = "error"
    /\ UNCHANGED <<requestVars, parseVars, subjects_arg, total_responsive, rows, tmp_path,
                   tmp_file, batches, performances, session, feedback_data>>

\* feedback/views.upload, lines 135-155: the Subject row of the iteration
LegacyCreateSubject ==
    /\ entry = "legacy" /\ pc = "save_subject"
    /\ LET pair == Zip(subject_names, teacher_names)[Len(rows) + 1]
           teacher == TeacherOf(teachers, pair[2])
       IN  \E db_ok \in BOOLEAN :
              IF db_ok
              THEN /\ rows' = Append(rows, LegacyRow(Len(batches), feedback_data, pair[1],
                                                     teacher, total_responsive))
                   /\ pc' = "save_performance"
              ELSE /\ UNCHANGED rows
                   /\ pc' = "error"
    /\ UNCHANGED <<requestVars, parseVars, subjects_arg, total_responsive, tmp_path,
                   tmp_file, batches, teachers, performances, session, feedback_data>>

\* feedback/views.upload, lines 157-163: the Performance row of the iteration
LegacyCreatePerformance ==
    /\ entry = "legacy" /\ pc = "save_performance"
    /\ \E db_ok \in BOOLEAN :
          IF db_ok
          THEN /\ performances' = Append(performances, PerformanceRow(rows, Len(rows)))
               /\ pc' = "loop"
          ELSE /\ UNCHANGED performances
               /\ pc' = "error"
    /\ UNCHANGED <<requestVars, parseVars, subjects_arg, total_responsive, rows, tmp_path,
                   tmp_file, batches, teachers, session, feedback_data>>

\* feedback/views.upload, line 165, after the loop
LegacyFinish ==
    /\ entry = "legacy" /\ pc = "loop"
    /\ Len(rows) = Len(Zip(subject_names, teacher_names))
    /\ pc' = "redirected"
    /\ UNCHANGED <<requestVars, parseVars, subjects_arg, total_responsive, rows, tmp_path,
                   tmp_file, viewState>>

Next ==
    \/ UploadBegin
    \/ UploadTempFile
    \/ ResolveLayout
    \/ LoadImages
    \/ DecodePage
    \/ Finalize
    \/ UploadGetTeacher
    \/ UploadCreateSubject
    \/ UploadCreatePerformance
    \/ UploadFinish
    \/ UploadAbort
    \/ LegacyBegin
    \/ LegacyParse
    \/ LegacyGetTeacher
    \/ LegacyCreateSubject
    \/ LegacyCreatePerformance
    \/ LegacyFinish

Spec == Init /\ [][Next]_vars

(***************************************************************************)
(* Two uploads served at the same time.  Each request runs parse_omr on    *)
(* its own temporary file with debug_dir="bubble_debug_images" and the     *)
(* default expected_questions (views.py lines 93-104); the two calls       *)
(* interleave at the page loop.  runs[r] holds the locals of call r, and   *)
(* debug_files is the one directory both calls write to.                   *)
(***************************************************************************)
Runs == {1, 2}
ConcurrentPages == {pg \in PageLibrary : pg.h = 3508 /\ pg.ink \in {"example", "eighty"}}
ConcurrentDocuments == SeqsUpTo(ConcurrentPages, MaxPages)
ConcurrentSubjectLists == {<<S_Physics>>, <<N_Physics_padded, S_Maths>>}

\* the locals of a call that has not started
RunAtCall(names, document) ==
    [pc |-> "call", subjects_arg |-> CleanedSubjects(names), document |-> document,
     subject_y_fracs |-> <<>>, images |-> <<>>, aggregated |-> <<>>,
     per_form |-> <<>>, results |-> <<>>]

InitConcurrent ==
    /\ runs \in [Runs -> {RunAtCall(n, d) : n \in ConcurrentSubjectLists, d \in ConcurrentDocuments}]
    /\ debug_files = <<>>
    /\ debug_dir = "writable"
    /\ entry = "concurrent"
    /\ pc = "concurrent"
    /\ subjects_arg = <<>>
    /\ phase = P_11_JEE
    /\ expected_questions = DefaultExpectedQuestions
    /\ subjects = <<>>
    /\ subject_y_fracs = <<>>
    /\ images = <<>>
    /\ aggregated = <<>>
    /\ per_form = <<>>
    /\ results = <<>>
    /\ raw_percent = <<>>
    /\ subject_names = <<>>
    /\ teacher_names = <<>>
    /\ total_responsive = 0
    /\ pdf_lines = <<>>
    /\ rows = <<>>
    /\ load_failed = FALSE
    /\ tmp_path = FALSE
    /\ tmp_file = "none"
    /\ remarks = <<>>
    /\ NoView

\* everything but runs and debug_files
UnchangedByRuns ==
    UNCHANGED <<entry, pc, subjects_arg, phase, expected_questions, subjects,
                subject_y_fracs, images, aggregated, per_form, results, raw_percent,
                subject_names, teacher_names, total_responsive, pdf_lines, rows,
                load_failed, debug_dir, tmp_path, tmp_file, remarks, viewState>>

\* call r, parse_omr lines 141-199: resolution, layout, makedirs, load_images
ConcStart(r) ==
    /\ runs[r].pc = "call"
    /\ LET fracs == Layout(ResolveSubjects(runs[r].subjects_arg, phase))
           imgs == runs[r].document
       IN  runs' = [runs EXCEPT ![r] =
                [@ EXCEPT !.subject_y_fracs = fracs,
                          !.images = imgs,
                          !.aggregated = IF imgs = <<>> THEN <<>> ELSE ZeroAggregate(fracs),
                          !.pc = IF imgs = <<>> THEN "done" ELSE "pages"]]
    /\ UNCHANGED debug_files
    /\ UnchangedByRuns

\* call r, parse_omr lines 201-243: one iteration of the page loop
ConcDecodePage(r) ==
    /\ runs[r].pc = "pages"
    /\ Len(runs[r].per_form) < Len(runs[r].images)
    /\ LET idx == Len(runs[r].per_form) + 1
           form_counts == FormCountsOf(runs[r].images[idx], runs[r].subject_y_fracs,
                                       expected_questions)
           aggr == FoldForm(runs[r].aggregated, form_counts)
       IN  /\ runs' = [runs EXCEPT ![r] =
                    [@ EXCEPT !.aggregated = aggr,
                              !.per_form = Append(@, FormRecord(idx, form_counts))]]
           /\ debug_files' = WriteDebug(debug_files, debug_dir, idx,
                                        DebugImage(runs[r].images[idx], form_counts, aggr))
    /\ UnchangedByRuns

\* call r, parse_omr lines 245-255: the verdicts and the return
ConcFinalize(r) ==
    /\ runs[r].pc = "pages"
    /\ Len(runs[r].per_form) = Len(runs[r].images)
    /\ runs' = [runs EXCEPT ![r] =
            [@ EXCEPT !.results = [i \in 1..Len(runs[r].aggregated) |->
                                      <<runs[r].aggregated[i][1],
                                        Verdict(runs[r].aggregated[i][2],
                                                Len(runs[r].per_form), expected_questions)>>],
                      !.pc = "done"]]
    /\ UNCHANGED debug_files
    /\ UnchangedByRuns

NextConcurrent ==
    \/ \E r \in Runs : ConcStart(r)
    \/ \E r \in Runs : ConcDecodePage(r)
    \/ \E r \in Runs : ConcFinalize(r)

SpecConcurrent == InitConcurrent /\ [][NextConcurrent]_vars

(***************************************************************************)
(* save_remarks (views.py lines 190-228, feedback/views.py lines 192-228). *)
(* The request names a batch and carries a body; a body that is a JSON     *)
(* object maps subject ids, as texts, to remarks.  The rows of the batch   *)
(* are Subject rows 1 and 2, each with at most one Performance row; id 3   *)
(* is no subject of the batch.  Every save() is committed when it is       *)
(* called: the view opens no transaction, so each commit is a step of its  *)
(* own and the rows between two commits are states of the program.  The    *)
(* request has passed csrf_protect.                                        *)
(***************************************************************************)
MaxRemarks == 2
BatchSubjectIds == {1, 2}
Id_1 == <<"1">>
Id_2 == <<"2">>
Id_3 == <<"3">>
Id_abc == <<"a", "b", "c">>
RequestSubjectIds == {Id_1, Id_2, Id_3, Id_abc}
RemarkTexts == {"good", "poor"}

\* the JSON objects a request may carry, as dicts in document order
RemarkDicts ==
    {d \in SeqsUpTo(RequestSubjectIds \X RemarkTexts, MaxRemarks) :
        \A i, j \in 1..Len(d) : d[i][1] = d[j][1] => i = j}

\* the bodies of a request: bytes that are not UTF-8, text that is not JSON, a
\* JSON list, JSON null, or a JSON object with its items
RemarkBodies ==
    {<<"object", d>> : d \in RemarkDicts}
        \cup {<<b, <<>>>> : b \in {"undecodable", "invalid", "list", "null"}}

\* the save() call the database refuses, counted from the first save() of the
\* request; 0 when it refuses none
RefusedSaves == 0..(2 * MaxRemarks)

\* the request and the rows before the view runs
RemarksRequest(method, batch_found, body, with_performance, refused) ==
    [pc |-> "request", method |-> method, batch_found |-> batch_found,
     body |-> body[1], data |-> body[2], k |-> 1, saves |-> 0, refused |-> refused,
     teacher_remarks |-> [i \in BatchSubjectIds |-> ""],
     performance_remarks |-> [i \in with_performance |-> ""],
     status |-> 0]

\* return JsonResponse(..., status=status)
Answer(req, status) == [req EXCEPT !.status = status, !.pc = "answered"]

\* lines 191-198 up to data.items(): the status answered before the loop, 0 when
\* the loop is entered.  require_POST answers 405; Batch.DoesNotExist 404;
\* UnicodeDecodeError of request.body.decode 500; json.JSONDecodeError 400;
\* AttributeError of data.items() on a list or None 500
RemarksEntryStatus(req) ==
    IF req.method # "POST" THEN 405
    ELSE IF ~req.batch_found THEN 404
    ELSE IF req.body = "undecodable" THEN 500
    ELSE IF req.body = "invalid" THEN 400
    ELSE IF req.body # "object" THEN 500
    ELSE 0

\* id=subject_id of Subject.objects.get: the key of the JSON object through int()
SubjectIdOf(req) == PyInt(req.data[req.k][1])

\* the next save() of the request is the one the database refuses
SaveRefused(req) == req.saves + 1 = req.refused

\* lines 198-202: the loop head, Subject.objects.get and subject.save() of entry k.
\* A key that is no number raises ValueError, answered 500; Subject.DoesNotExist
\* is answered 404; a refused save() is answered 500
SaveSubject(req) ==
    IF ~SubjectIdOf(req).ok THEN Answer(req, 500)
    ELSE IF SubjectIdOf(req).value \notin BatchSubjectIds THEN Answer(req, 404)
    ELSE IF SaveRefused(req) THEN Answer([req EXCEPT !.saves = @ + 1], 500)
    ELSE [req EXCEPT !.teacher_remarks[SubjectIdOf(req).value] = req.data[req.k][2],
                     !.saves = @ + 1, !.pc = "performance"]

\* lines 205-210: Performance.objects.filter(...).first() and performance.save()
\* of entry k; without a Performance row only a warning is logged
SavePerformance(req) ==
    IF SubjectIdOf(req).value \notin DOMAIN req.performance_remarks
    THEN [req EXCEPT !.k = @ + 1, !.pc = "loop"]
    ELSE IF SaveRefused(req) THEN Answer([req EXCEPT !.saves = @ + 1], 500)
    ELSE [req EXCEPT !.performance_remarks[SubjectIdOf(req).value] = req.data[req.k][2],
                     !.saves = @ + 1, !.k = @ + 1, !.pc = "loop"]

InitRemarks ==
    /\ remarks \in {RemarksRequest(m, b, j, w, f) :
                       m \in {"POST", "GET"}, b \in BOOLEAN, j \in RemarkBodies,
                       w \in {BatchSubjectIds, {1}}, f \in RefusedSaves}
    /\ runs = <<>>
    /\ debug_files = <<>>
    /\ debug_dir = "writable"
    /\ entry = "save_remarks"
    /\ pc = "save_remarks"
    /\ subjects_arg = <<>>
    /\ phase = <<>>
    /\ expected_questions = DefaultExpectedQuestions
    /\ subjects = <<>>
    /\ subject_y_fracs = <<>>
    /\ images = <<>>
    /\ aggregated = <<>>
    /\ per_form = <<>>
    /\ results = <<>>
    /\ raw_percent = <<>>
    /\ subject_names = <<>>
    /\ teacher_names = <<>>
    /\ total_responsive = 0
    /\ pdf_lines = <<>>
    /\ rows = <<>>
    /\ load_failed = FALSE
    /\ tmp_path = FALSE
    /\ tmp_file = "none"
    /\ NoView

UnchangedByRemarks ==
    UNCHANGED <<entry, pc, subjects_arg, phase, expected_questions, subjects,
                subject_y_fracs, images, aggregated, per_form, results, raw_percent,
                subject_names, teacher_names, total_responsive, pdf_lines, rows,
                load_failed, debug_dir, debug_files, tmp_path, tmp_file, runs,
                viewState>>

\* the method, the batch and the body
RemarksBegin ==
    /\ remarks.pc = "request"
    /\ remarks' = IF RemarksEntryStatus(remarks) # 0
                  THEN Answer(remarks, RemarksEntryStatus(remarks))
                  ELSE [remarks EXCEPT !.pc = "loop"]
    /\ UnchangedByRemarks

\* one entry of data.items(): the Subject row
RemarksSaveSubject ==
    /\ remarks.pc = "loop"
    /\ remarks.k <= Len(remarks.data)
    /\ remarks' = SaveSubject(remarks)
    /\ UnchangedByRemarks

\* the same entry: the Performance row
RemarksSavePerformance ==
    /\ remarks.pc = "performance"
    /\ remarks' = SavePerformance(remarks)
    /\ UnchangedByRemarks

\* line 216: the loop has ended
RemarksFinish ==
    /\ remarks.pc = "loop"
    /\ remarks.k > Len(remarks.data)
    /\ remarks' = Answer(remarks, 200)
    /\ UnchangedByRemarks

NextRemarks ==
    \/ RemarksBegin
    \/ RemarksSaveSubject
    \/ RemarksSavePerformance
    \/ RemarksFinish

SpecRemarks == InitRemarks /\ [][NextRemarks]_vars

(***************************************************************************)
(* Properties.  Helper definitions first.                                  *)
(***************************************************************************)
SumCounts(c) == c["5_star"] + c["3_star"] + c["1_star"]
\* the positions of a run at which parse_omr has returned to its caller
AfterParse == {"done", "save_subject", "save_performance", "redirected"}
\* parse_omr has resolved the subjects and built the layout
LayoutDone == pc \in ({"load", "pages"} \cup AfterParse) /\ entry # "legacy"
\* parse_omr stands between two pages, or has returned
PageBoundary == pc \in ({"pages"} \cup AfterParse) /\ entry # "legacy"
\* parse_omr has returned after decoding at least one page
Returned == pc \in AfterParse /\ entry # "legacy" /\ images # <<>>
\* the decoded count of page k for a subject and a rating
PageCount(k, subject, s) == DictGet(per_form[k].star_counts, subject)[s]
RECURSIVE SumPages(_, _, _)
SumPages(k, subject, s) ==
    IF k = 0 THEN 0 ELSE SumPages(k - 1, subject, s) + PageCount(k, subject, s)
JeeSubjects == <<S_Physics, S_Chemistry, S_Maths, S_ComputerScience, S_English>>
MedicalSubjects == <<S_Physics, S_Chemistry, S_Botany, S_Zoology, S_Maths, S_English>>
JuniorSubjects == <<S_Physics, S_Chemistry, S_Maths, S_Biology, S_Social, S_English, S_Language, S_MAT>>
FourSubjects == <<S_Physics, S_Chemistry, S_Maths, S_English>>

\* C1: a subject list of length K gets exactly K bands, one per list position, each
\* with 0 <= start < end < 1, and each band ends at or before the next one starts.
C1_BandPerPosition ==
    LayoutDone =>
        /\ Len(subject_y_fracs) = Len(subjects)
        /\ \A i \in 1..Len(subject_y_fracs) :
              /\ i <= Len(subjects) => subject_y_fracs[i][1] = subjects[i]
              /\ FLe(FInt(0), subject_y_fracs[i][2][1])
              /\ FLt(subject_y_fracs[i][2][1], subject_y_fracs[i][2][2])
              /\ FLt(subject_y_fracs[i][2][2], FInt(1))
        /\ \A i \in 1..(Len(subject_y_fracs) - 1) :
              FLe(subject_y_fracs[i][2][2], subject_y_fracs[i + 1][2][1])

\* C2: every count process_subject_block returns is a non-negative integer and the
\* counts of one subject on one page sum to at most expected_questions.
C2_CountsWithinQuestions ==
    \A k \in 1..Len(per_form) : \A i \in 1..Len(per_form[k].star_counts) :
        LET c == per_form[k].star_counts[i][2]
        IN  /\ \A s \in DOMAIN c : c[s] \in Nat
            /\ SumCounts(c) <= expected_questions

\* a page on which every one of the 20 slots of a band was counted, and a band of
\* the same run that was undercounted
C2_Witness ==
    /\ expected_questions = 20
    /\ \E k \in 1..Len(per_form) : \E i \in 1..Len(per_form[k].star_counts) :
          SumCounts(per_form[k].star_counts[i][2]) = 20
    /\ \E k \in 1..Len(per_form) : \E i \in 1..Len(per_form[k].star_counts) :
          SumCounts(per_form[k].star_counts[i][2]) \in 1..19

\* C3: after every prefix of the pages, the aggregated count of every subject and
\* rating is the sum of the per-form counts of the pages decoded so far.
C3_AggregateIsSum ==
    PageBoundary =>
        \A i \in 1..Len(aggregated) : \A s \in {"5_star", "3_star", "1_star"} :
            aggregated[i][2][s] = SumPages(Len(per_form), aggregated[i][1], s)

\* two pages folded, both with marks for the first subject
C3_Witness ==
    /\ PageBoundary
    /\ Len(per_form) = 2
    /\ SumCounts(per_form[1].star_counts[1][2]) > 0
    /\ SumCounts(per_form[2].star_counts[1][2]) > 0
    /\ per_form[1].star_counts[1][2] # per_form[2].star_counts[1][2]

\* the aggregated counts parse_omr reaches when it folds the pages imgs in the
\* order given, from page k on
RECURSIVE FoldPages(_, _, _, _, _)
FoldPages(imgs, k, fracs, eq, aggr) ==
    IF k > Len(imgs) THEN aggr
    ELSE FoldPages(imgs, k + 1, fracs, eq, FoldForm(aggr, FormCountsOf(imgs[k], fracs, eq)))
Reordered(imgs, perm) == [i \in 1..Len(imgs) |-> imgs[perm[i]]]

\* C4: for a fixed multiset of pages, every order of folding them yields the same
\* final aggregated counts, the same percentage and the same verdict per subject:
\* every order yields the aggregated counts of the run, and the percentage and the
\* verdict of the run are functions of these counts and the number of pages alone.
C4_OrderIndependent ==
    Returned =>
        /\ \A perm \in Permutations(1..Len(images)) :
              FoldPages(Reordered(images, perm), 1, subject_y_fracs, expected_questions,
                        ZeroAggregate(subject_y_fracs)) = aggregated
        /\ \A i \in 1..Len(aggregated) :
              /\ RawPercent(aggregated[i][2], Len(images), expected_questions)
                    = raw_percent[i][2]
              /\ Verdict(aggregated[i][2], Len(images), expected_questions) = results[i][2]

\* two pages with different marks for the first subject have been folded
C4_Witness ==
    /\ Returned
    /\ Len(images) = 2
    /\ per_form[1].star_counts[1][2] # per_form[2].star_counts[1][2]
    /\ SumCounts(per_form[1].star_counts[1][2]) > 0
    /\ SumCounts(per_form[2].star_counts[1][2]) > 0

\* |x - n / d| <= 2^(-40) for a float x and integers n and d > 0: x is n / d up to
\* the rounding of the float operations that computed it
FNear(x, n, d) ==
    LET sh == IF x.e < 0 THEN 0 - x.e ELSE 0
        X == BMul(BShl(x.m, x.e + sh), BFromInt(d))
        N == BShl(BFromInt(Abs(n)), sh)
        diff == IF x.m = <<>> \/ n = 0 \/ x.neg = (n < 0)
                THEN (IF BCmp(X, N) >= 0 THEN BSub(X, N) ELSE BSub(N, X))
                ELSE BAdd(X, N)
    IN  BCmp(BShl(diff, 40), BShl(BFromInt(d), sh)) <= 0

\* C5: the final percentage of a subject is
\* 100 * (5*c5 + 3*c3 + c1) / (pages * expected_questions * 5), as a float (within
\* 2^(-40) of the exact quotient), and 0 when that denominator is 0; counts
\* {12, 5, 3}, 20 questions, one page give 78 of 100, exactly 78%.
C5_PercentageFormula ==
    Returned =>
        /\ Len(raw_percent) = Len(aggregated)
        /\ \A i \in 1..Len(aggregated) :
              LET c == aggregated[i][2]
                  den == Len(per_form) * expected_questions * 5
                  num == 100 * (5 * c["5_star"] + 3 * c["3_star"] + c["1_star"])
                  pct == raw_percent[i][2]
              IN  /\ raw_percent[i][1] = aggregated[i][1]
                  /\ IF den = 0 THEN pct = FInt(0) ELSE FNear(pct, num, den)
                  /\ (c = Stars3(12, 5, 3) /\ expected_questions = 20 /\ Len(per_form) = 1)
                        => /\ TotalScore(c) = 78
                           /\ MaxScore(Len(per_form), expected_questions) = 100
                           /\ pct = FInt(78)

\* the scenario of the claim: one page, 20 questions, counts {12, 5, 3}
C5_Witness ==
    /\ Returned
    /\ expected_questions = 20
    /\ Len(per_form) = 1
    /\ aggregated[1][2] = Stars3(12, 5, 3)
    /\ raw_percent[1][2] = FInt(78)

\* C6: parse_omr returns "Yes" for a subject exactly when its final percentage is
\* at least 80 and "No" otherwise, and returns a verdict for every subject that
\* has aggregated counts.
C6_VerdictAtCutoff ==
    Returned =>
        /\ DictKeys(results) = DictKeys(aggregated)
        /\ \A i \in 1..Len(aggregated) :
              LET c == aggregated[i][2]
                  den == Len(per_form) * expected_questions * 5
                  num == 100 * (5 * c["5_star"] + 3 * c["3_star"] + c["1_star"])
                  passes == den > 0 /\ num >= 80 * den
              IN  /\ results[i][2] \in {"Yes", "No"}
                  /\ results[i][2] = "Yes" <=> passes

\* the first subject stands at exactly 80% and is passed
C6_Witness ==
    /\ Returned
    /\ expected_questions > 0
    /\ 100 * TotalScore(aggregated[1][2]) = 80 * Len(per_form) * expected_questions * 5
    /\ results[1][2] = "Yes"

\* C7 as claimed: a response-count policy is available to the caller, under which a
\* subject with at least 16 of 20 responses marked passes; stated for the calls
\* parse_omr accepts: with 20 questions and one page, 16 or more marked responses
\* get the passing verdict.
C7_ResponseCountPolicy ==
    (Returned /\ expected_questions = 20 /\ Len(per_form) = 1) =>
        \A i \in 1..Len(aggregated) :
            SumCounts(aggregated[i][2]) >= 16 => results[i][2] = "Yes"

\* C7 amended: parse_omr knows the percentage cutoff alone; no argument selects a
\* response-count policy.  A subject with at least 16 of every 20 responses marked
\* still gets "No" whenever its percentage is below 80, as counts {12, 5, 3} do.
C7_PercentagePolicyOnly ==
    Returned =>
        \A i \in 1..Len(aggregated) :
            LET c == aggregated[i][2]
                den == Len(per_form) * expected_questions * 5
            IN  (/\ 20 * SumCounts(c) >= 16 * Len(per_form) * expected_questions
                 /\ 100 * TotalScore(c) < 80 * den)
                    => results[i][2] = "No"

\* counts {12, 5, 3} of 20 on one page: all 20 responses marked, verdict "No"
C7_Witness ==
    /\ Returned
    /\ expected_questions = 20
    /\ Len(per_form) = 1
    /\ aggregated[1][2] = Stars3(12, 5, 3)
    /\ results[1][2] = "No"

\* every percentage in the state: final percentages of parse_omr and the
\* average_percentage of every row an upload view created
InRange(x) == FLe(FInt(0), x) /\ FLe(x, FInt(100))

\* C8: every percentage computed for a subject lies in [0, 100]: in parse_omr after
\* any number of pages, and in both upload views for any counts and any
\* total_responsive.
C8_PercentInRange ==
    /\ \A i \in 1..Len(raw_percent) : InRange(raw_percent[i][2])
    /\ PageBoundary =>
          \A i \in 1..Len(aggregated) :
              InRange(RawPercent(aggregated[i][2], Len(per_form), expected_questions))
    /\ \A i \in 1..Len(rows) : InRange(rows[i].average_percentage)

\* C9 as claimed: with an empty subject list and no phase code the run aborts; no
\* page is decoded and no counts, per-form records or verdicts come back.
C9_EmptyInputsAbort ==
    (entry = "parse_omr" /\ subjects_arg = <<>> /\ phase = <<>>) =>
        /\ per_form = <<>>
        /\ results = <<>>
        /\ pc = "done" => aggregated = <<>>

\* C9 amended: with an empty subject list and no phase code, resolution does not
\* fail; it yields the default Physics, Chemistry, Maths, English, and the run
\* decodes every page for these four subjects and returns their verdicts.
C9_EmptyInputsDefault ==
    (entry = "parse_omr" /\ subjects_arg = <<>> /\ phase = <<>> /\ pc # "call") =>
        /\ subjects = FourSubjects
        /\ DictKeys(subject_y_fracs) = FourSubjects
        /\ (pc = "done" /\ images # <<>>) =>
              /\ Len(per_form) = Len(images)
              /\ DictKeys(aggregated) = FourSubjects
              /\ DictKeys(results) = FourSubjects

\* such a call has returned with a page decoded and marks counted
C9_Witness ==
    /\ entry = "parse_omr" /\ subjects_arg = <<>> /\ phase = <<>>
    /\ pc = "done"
    /\ Len(per_form) >= 1
    /\ DictKeys(results) = FourSubjects
    /\ \E i \in 1..Len(aggregated) : SumCounts(aggregated[i][2]) > 0

\* C10: the subjects scored are the explicit list when it is non-empty, whatever the
\* phase; otherwise the table entry the lower-cased, trimmed phase matches ("11 JEE"
\* in any letter case gives the five JEE subjects); otherwise the four defaults.
\* Resolution from a phase never fails and never yields an empty list.
C10_SubjectResolution ==
    LayoutDone =>
        /\ subjects # <<>>
        /\ subjects_arg # <<>> => subjects = subjects_arg
        /\ (subjects_arg = <<>> /\ phase \in {P_11_JEE, P_11_jee_padded, P_11th_Jee})
              => subjects = JeeSubjects
        /\ (subjects_arg = <<>> /\ phase = P_12_Medical) => subjects = MedicalSubjects
        /\ (subjects_arg = <<>> /\ phase \in {P_9th, P_Class_10}) => subjects = JuniorSubjects
        /\ (subjects_arg = <<>> /\ phase \in {P_11, P_12th, P_Foundation, P_blank})
              => subjects = FourSubjects
        /\ (subjects_arg = <<>> /\ phase # <<>>)
              => subjects \in {JeeSubjects, MedicalSubjects, JuniorSubjects, FourSubjects}

\* phase "11 JEE" with no explicit list has been resolved to the JEE subjects
C10_Witness ==
    /\ LayoutDone
    /\ subjects_arg = <<>>
    /\ phase = P_11_JEE
    /\ subjects = JeeSubjects
    /\ DictKeys(subject_y_fracs) = JeeSubjects

\* C11: when the document cannot be opened or decoded, or yields no page, parse_omr
\* does not raise and returns empty per-form records, counts and verdicts, decodes
\* no band and writes no diagnostic image; a load that fails part-way never yields
\* a result that holds decoded pages.
C11_LoadFailureEmptyResult ==
    (entry # "legacy" /\ pc \in ({"pages", "error"} \cup AfterParse)
        /\ (load_failed \/ images = <<>>)) =>
        /\ per_form = <<>>
        /\ debug_files = <<>>
        /\ pc = "done" => (aggregated = <<>> /\ results = <<>>)

\* at every point of the page loop and after it: one record per decoded page, in
\* page order, numbered 1.., each holding the counts of its own page alone for
\* every subject of the layout
C12_RecordsOfOwnPages ==
    (entry # "legacy" /\ pc \in ({"pages", "error"} \cup AfterParse)) =>
        /\ Len(per_form) <= Len(images)
        /\ pc # "pages" => Len(per_form) = Len(images)
        /\ \A k \in 1..Len(per_form) :
              /\ per_form[k].page_number = k
              /\ per_form[k].star_counts
                    = FormCountsOf(images[k], subject_y_fracs, expected_questions)
              /\ DictKeys(per_form[k].star_counts) = DictKeys(subject_y_fracs)

\* a step appends at most one record and changes none of the records it found
C12_RecordsKept ==
    /\ Len(per_form') \in {Len(per_form), Len(per_form) + 1}
    /\ \A k \in 1..Len(per_form) : per_form'[k] = per_form[k]

\* C12: parse_omr appends exactly one per-form record per processed page, in page
\* order, with page_number 1..M; the record of page k holds page k's own counts for
\* every subject, not the running aggregate, and later pages never change it.
C12_RecordPerPage == [](C12_RecordsOfOwnPages) /\ [][C12_RecordsKept]_vars

\* two pages decoded: the second record differs from the first and from the
\* running aggregate
C12_Witness ==
    /\ entry # "legacy" /\ pc = "done"
    /\ Len(per_form) = 2
    /\ per_form[2].page_number = 2
    /\ per_form[1].star_counts # per_form[2].star_counts
    /\ per_form[2].star_counts # aggregated
    /\ per_form[1].star_counts # aggregated

\* C13 as claimed, in the scenario of a sheet printed two forms to a page: every
\* page is cut into two equal-height slices and yields two per-form records.
C13_TwoSlicesPerPage ==
    Returned => Len(per_form) = 2 * Len(images)

\* the counts of every band of a page when the bands are cut from the full height
\* of the page, for every page, layout and expected_questions of the model
FullHeightCounts(page, fracs, eq) ==
    [i \in 1..Len(fracs) |->
        LET full_start == FTrunc(FMul(FInt(page.h), fracs[i][2][1]))
            full_end == FTrunc(FMul(FInt(page.h), fracs[i][2][2]))
            x_positions == XPositions(page.w)
        IN  process_subject_block(page, i, fracs[i][1], full_start, full_end, x_positions, eq,
                                  FInt(1), MinAreaDefault)]
FullHeightCountsTable == [k \in DecodeKeys |-> FullHeightCounts(k[1], k[2], k[3])] @@ <<>>

\* C13 amended: parse_omr does not split pages.  It has no expected number of forms
\* and detects no boundaries: every loaded page is one form and yields exactly one
\* per-form record, whose bands are cut from the full height of the page.
C13_OnePageOneForm ==
    Returned =>
        /\ Len(per_form) = Len(images)
        /\ \A k \in 1..Len(per_form) : \A i \in 1..Len(subject_y_fracs) :
              per_form[k].star_counts[i][2]
                 = FullHeightCountsTable[<<images[k], subject_y_fracs, expected_questions>>][i]

\* two pages were loaded and gave two records, the first with marks counted in the
\* lower half of the page
C13_Witness ==
    /\ Returned
    /\ Len(images) = 2
    /\ Len(per_form) = 2
    /\ Len(per_form[1].star_counts) = 2
    /\ SumCounts(per_form[1].star_counts[2][2]) > 0

\* C14: a failure to create the debug directory or to write a diagnostic image never
\* makes parse_omr fail; the run returns the records, counts and verdicts of a run
\* whose diagnostic writes all succeed.
C14_DiagnosticsBestEffort ==
    (entry # "legacy" /\ debug_dir # "writable") =>
        /\ pc # "raised"
        /\ Returned =>
              /\ Len(per_form) = Len(images)
              /\ aggregated = FoldPages(images, 1, subject_y_fracs, expected_questions,
                                        ZeroAggregate(subject_y_fracs))
              /\ DictKeys(results) = DictKeys(aggregated)

\* C15: on every exit path of views.upload after its temporary file was created
\* (redirect, an exception while writing the upload, parsing or saving, a removal
\* that fails with a permission error), the file no longer exists at return.
C15_TempFileRemoved ==
    (entry = "upload" /\ pc \in {"redirected", "error"}) => tmp_file # "exists"

\* what call r returns and writes when it runs alone
AloneAggregated(r) ==
    IF runs[r].images = <<>> THEN <<>>
    ELSE FoldPages(runs[r].images, 1, runs[r].subject_y_fracs, expected_questions,
                   ZeroAggregate(runs[r].subject_y_fracs))
AloneDebugImage(r, k) ==
    LET fracs == runs[r].subject_y_fracs
        form_counts == FormCountsOf(runs[r].images[k], fracs, expected_questions)
    IN  DebugImage(runs[r].images[k], form_counts,
                   FoldPages(Prefix(runs[r].images, k), 1, fracs, expected_questions,
                             ZeroAggregate(fracs)))

\* C16: two concurrent parse_omr calls never write to a location the other writes
\* or reads: what each call returns, and the diagnostic files it wrote, are those
\* of the call running alone.
C16_RunsIsolated ==
    \A r \in DOMAIN runs :
        runs[r].pc = "done" =>
            /\ runs[r].aggregated = AloneAggregated(r)
            /\ \A k \in 1..Len(runs[r].images) :
                  /\ DictHas(debug_files, k)
                  /\ DictGet(debug_files, k) = AloneDebugImage(r, k)

\* the band of a page in pixels: height, slot height and window (lines 14-21)
SlotGeometry(page, band, eq) ==
    LET y_start == Max(0, IntMul(page.h, band[1]))
        y_end == Min(page.h, IntMul(page.h, band[2]))
        block_h == SliceLen(page.h, y_start, y_end)
        step == IF eq > 0 THEN block_h \div eq ELSE 1
    IN  [block_h |-> block_h, step |-> step, window |-> Max(15, step \div 2)]

\* the slots of a band of geometry g that pass the bounds check of line 49
ExaminedSlots(g, eq) ==
    IF g.block_h <= 0 THEN {}
    ELSE {idx \in 0..(eq - 1) :
             SlotExamined(((2 * idx + 1) * g.step) \div 2, g.window, g.block_h)}

\* the components <<column, area>> of slot idx whose area exceeds the threshold of
\* the subject, in a band of geometry g
Qualifying(page, p, subject, g, x_positions, eq, idx) ==
    LET threshold == LocalMinArea(subject, MinAreaDefault)
    IN  UNION {{<<j, ContourAreas(page.ink, p, idx, j, eq)[n]>> :
                    n \in {k \in 1..Len(ContourAreas(page.ink, p, idx, j, eq)) :
                              /\ ContourAreas(page.ink, p, idx, j, eq)[k] > threshold
                              /\ RoiWidth(page.w, x_positions[j + 1], g.window) > 0}} :
               j \in 0..(Len(x_positions) - 1)}

\* the lowest column among those holding a component of the largest area; -1 when
\* no component qualifies
Winner(Q) ==
    IF Q = {} THEN -1
    ELSE LET top == CHOOSE a \in {c[2] : c \in Q} : \A c \in Q : c[2] <= a
             cols == {c[1] : c \in {d \in Q : d[2] = top}}
         IN  CHOOSE j \in cols : \A i \in cols : j <= i

\* for every band of a page, the number of examined slots each column wins
SlotsWon(page, fracs, eq) ==
    LET x_positions == XPositions(page.w)
    IN  [i \in 1..Len(fracs) |->
            LET g == SlotGeometry(page, fracs[i][2], eq)
                won == [idx \in ExaminedSlots(g, eq) |->
                           Winner(Qualifying(page, i, fracs[i][1], g, x_positions, eq, idx))]
            IN  [j \in 0..2 |-> Cardinality({idx \in DOMAIN won : won[idx] = j})]]
SlotsWonTable == [k \in DecodeKeys |-> SlotsWon(k[1], k[2], k[3])] @@ <<>>

\* C17: within a slot the rating detected is the column holding the component of
\* largest area among those above the subject's threshold, the lowest column on a
\* tie, and no rating when no component is above the threshold: the counts of every
\* page just decoded are the numbers of examined slots won by each column.
C17_LargestAreaFirstColumn ==
    (entry # "legacy" /\ pc = "pages" /\ per_form # <<>>) =>
        LET k == Len(per_form)
        IN  \A i \in 1..Len(subject_y_fracs) : \A j \in 0..2 :
                per_form[k].star_counts[i][2][stars[j + 1]]
                   = SlotsWonTable[<<images[k], subject_y_fracs, expected_questions>>][i][j]

\* a page was decoded on which, for the first subject, one slot has its largest area
\* in two columns and went to the lower one, another slot has components but none
\* above the threshold, and a third has its largest area in the last column
C17_Witness ==
    /\ entry # "legacy" /\ pc = "pages" /\ Len(per_form) = 1
    /\ LET page == images[1]
           subject == subject_y_fracs[1][1]
           band == subject_y_fracs[1][2]
           g == SlotGeometry(page, band, expected_questions)
           x_positions == XPositions(page.w)
           slots == ExaminedSlots(g, expected_questions)
           Q(idx) == Qualifying(page, 1, subject, g, x_positions, expected_questions, idx)
       IN  /\ \E idx \in slots :
                 /\ Winner(Q(idx)) = 0
                 /\ \E c \in Q(idx) : c[1] > 0 /\ \A d \in Q(idx) : d[2] <= c[2]
           /\ \E idx \in slots :
                 /\ Q(idx) = {}
                 /\ \E j \in 0..2 : ContourAreas(page.ink, 1, idx, j, expected_questions) # <<>>
           /\ \E idx \in slots : Winner(Q(idx)) = 2
           /\ per_form[1].star_counts[1][2]["5_star"] > 0
           /\ per_form[1].star_counts[1][2]["1_star"] > 0

\* C18: in a band of pixel height H cut into n >= 1 slots of height H div n >= 30,
\* every slot 0..n-1 is examined at every rating column: the window bounds check
\* skips none, so a mark in any slot, the first and the last included, is counted.
C18_EverySlotExamined ==
    (entry # "legacy" /\ pc = "pages" /\ per_form # <<>>) =>
        LET page == images[Len(per_form)]
        IN  \A i \in 1..Len(subject_y_fracs) :
                LET g == SlotGeometry(page, subject_y_fracs[i][2], expected_questions)
                IN  (expected_questions >= 1 /\ g.step >= 30) =>
                        /\ ExaminedSlots(g, expected_questions) = 0..(expected_questions - 1)
                        /\ \A j \in 1..3 : RoiWidth(page.w, XPositions(page.w)[j], g.window) > 0
                        /\ page.ink = "all5" =>
                              SumCounts(per_form[Len(per_form)].star_counts[i][2])
                                 = expected_questions

\* a stored percentage as the rational k / 100 it is the nearest double to
AsHundredths(x) == RNorm(<<FHundredths(x), 100>>)

\* 100 * (5*five + 3*three + one) / (responses * 20 * 5), to two decimals
ScoredPercentage(row, responses) ==
    Round2(RMul(<<5 * row.five_star + 3 * row.three_star + row.one_star, responses * 20 * 5>>,
                RInt(100)))

\* C19: the average percentage an upload view stores for a subject is
\* 100 * (5*five_star + 3*three_star + one_star) / (responses * 20 * 5), with the
\* respondent count supplied by the caller or the number of pages processed for
\* responses (to two decimals, and at most 100 where the view caps it); the stored
\* percentage is at least 80 exactly when parse_omr's verdict for the subject is "Yes".
C19_StoredPercentage ==
    /\ (entry = "legacy" /\ total_responsive > 0) =>
          \A i \in 1..Len(rows) :
              AsHundredths(rows[i].average_percentage)
                 = RMin(RInt(100), ScoredPercentage(rows[i], total_responsive))
    /\ (entry = "upload" /\ per_form # <<>>) =>
          \A i \in 1..Len(rows) :
              /\ AsHundredths(rows[i].average_percentage)
                    = ScoredPercentage(rows[i], Len(per_form))
              /\ DictHas(results, rows[i].subject_name) =>
                    (FLe(FInt(80), rows[i].average_percentage)
                        <=> DictGet(results, rows[i].subject_name) = "Yes")

\* C20: for every subject name posted to views.upload, with or without surrounding
\* whitespace, the five/three/one-star counts of the Subject row created for it are
\* the aggregated counts parse_omr decoded for that subject.
C20_StoredCountsAreDecoded ==
    (entry = "upload" /\ pc \in {"redirected", "error"} /\ per_form # <<>>) =>
        \A i \in 1..Len(rows) :
            LET decoded == DictGet(aggregated, Strip(subject_names[i]))
            IN  /\ rows[i].subject_name = Strip(subject_names[i])
                /\ DictHas(aggregated, Strip(subject_names[i]))
                /\ rows[i].five_star = decoded["5_star"]
                /\ rows[i].three_star = decoded["3_star"]
                /\ rows[i].one_star = decoded["1_star"]

\* C21: save_remarks is all-or-nothing.  When it answers with an error status no
\* Subject.teacher_remarks and no Performance.remarks has been changed by the
\* request; when it answers success every subject named in the request has
\* teacher_remarks equal to the submitted remark and to the remarks of its
\* Performance row.
C21_RemarksAllOrNothing ==
    (remarks # <<>> /\ remarks.pc = "answered") =>
        /\ remarks.status # 200 =>
              /\ \A i \in DOMAIN remarks.teacher_remarks : remarks.teacher_remarks[i] = ""
              /\ \A i \in DOMAIN remarks.performance_remarks :
                    remarks.performance_remarks[i] = ""
        /\ remarks.status = 200 =>
              \A k \in 1..Len(remarks.data) :
                  LET subject_id == PyInt(remarks.data[k][1]).value
                  IN  /\ remarks.teacher_remarks[subject_id] = remarks.data[k][2]
                      /\ subject_id \in DOMAIN remarks.performance_remarks =>
                            remarks.performance_remarks[subject_id]
                               = remarks.teacher_remarks[subject_id]

====
